---- MODULE Spec2Model ----
(***************************************************************************)
(* Kernel-trace pipeline: the syscall pairer, the temporal descriptor map, *)
(* the sequence grouper (src/src/event_sequence_builder.py) and the        *)
(* context resolver of the line parser (src/src/trace_parser.py).          *)
(*                                                                         *)
(* Conventions.                                                            *)
(*  - A Python Optional is a sequence: <<>> is None, <<v>> is the value v. *)
(*  - A Python str that the code inspects (file names, socket ids, the     *)
(*    fd:<N> placeholder, command names) is a sequence of characters; the  *)
(*    characters "dq" and "sq" stand for the double and the single quote.  *)
(*  - Timestamps are integers, in milliseconds (the code holds seconds as  *)
(*    floats; 1 unit of the model is 0.001 s, so time_gap_ms / 1000.0      *)
(*    seconds is time_gap_ms units).  Floating-point rounding is not       *)
(*    modelled.                                                            *)
(*  - event_type is the pair (kind, name): kind "syscall_entry" stands for *)
(*    an event_type containing 'syscall_entry', name for what is left      *)
(*    after .replace('syscall_entry_', '').                                *)
(***************************************************************************)
EXTENDS Integers, Sequences, FiniteSets, TLC

VARIABLES
  \* ---- EventSequenceBuilder (one instance) ----
  grouping_rules,         \* GROUPING_RULES: ordered dict, as a sequence of rules
  schema_rules,           \* the 'rules' list of the schema_config given to __init__ (<<>> without one)
  nevents,                \* how many events of self.events the pairing loop has consumed
  pending,                \* pending_entries: (tid, syscall_name) -> entry event
  pairs,                  \* the list `pairs` of _pair_syscalls
  origin,                 \* history: for pairs[i], the entry and exit events it was built from
  fd_map,                 \* self.fd_map: (pid, fd) -> list of (start, end, path)
  fd_mappings_created,
  fd_mappings_resolved,
  fd_mappings_cleaned,
  fd_mappings_from_lsof,
  sequences,              \* self.sequences
  sequence_counter,
  phase,                  \* position in build_sequences: "pairing", then "built"
  cur,                    \* history: the event the pairing loop handled last
  dropped,                \* history: idx of the entry events overwritten in pending_entries
  \* ---- TraceParser ----
  tid_context,            \* tid -> (pid, comm)
  cpu_context,            \* cpu_id -> tid
  context_updates,
  parse_errors,
  total_lines,
  emitted,                \* what _parse_line returned for the last line (None or the event)
  nparsed,                \* len(self.events)
  sw,                     \* history: per cpu, the last sched_switch seen on it
  last_line,              \* history: the line parsed last (None before the first)
  \* ---- EntityExtractor ----
  x_events,               \* self.events of the extractor
  entities,               \* processes, threads, files, sockets, cpus and the tracking dicts
  extracted,              \* whether extract_all has run
  \* ---- the pipeline: parse, extract_all, build_sequences ----
  run,                    \* which run of the pipeline in this interpreter: 1, then 2
  input,                  \* history: the lines and the descriptor snapshot of run 1
  first_run,              \* history: the events, entities and sequences run 1 produced
  \* ---- TraceParser._parse_timestamp ----
  timestamp_str,          \* the timestamp text of the line at hand (None before the first)
  timestamp,              \* what _parse_timestamp did with it: returned a value, or raised
  \* ---- EventSequenceBuilder._parse_lsof_output ----
  fd_mappings,            \* the dict being filled: (pid, fd) -> name
  current_pid,            \* Optional[int]
  current_fd,             \* Optional[int]
  nlsof,                  \* number of lines of raw_output read so far
  block,                  \* history: the stripped lines read since the last process line, that line first
  loaded                  \* _load_initial_fd_state has put the mappings into fd_map

bvars == <<grouping_rules, schema_rules, nevents, pending, pairs, origin, fd_map, fd_mappings_created,
           fd_mappings_resolved, fd_mappings_cleaned, fd_mappings_from_lsof,
           sequences, sequence_counter, phase, cur, dropped>>
pvars == <<tid_context, cpu_context, context_updates, parse_errors, total_lines,
           emitted, nparsed, sw, last_line>>
xvars == <<x_events, entities, extracted>>
rvars == <<run, input, first_run>>
tvars == <<timestamp_str, timestamp>>
lvars == <<fd_mappings, current_pid, current_fd, nlsof, block, loaded>>
vars == <<bvars, pvars, xvars, rvars, tvars, lvars>>

-----------------------------------------------------------------------------
(* Python values *)

None == <<>>
Some(v) == <<v>>
Get(o) == o[1]

DQ == "dq"
SQ == "sq"

RECURSIVE LStrip(_, _)
LStrip(s, c) == IF s # <<>> /\ Head(s) = c THEN LStrip(Tail(s), c) ELSE s

RECURSIVE RStrip(_, _)
RStrip(s, c) ==
  IF s # <<>> /\ s[Len(s)] = c THEN RStrip(SubSeq(s, 1, Len(s) - 1), c) ELSE s

\* str.strip(c) for a one-character c
Strip(s, c) == RStrip(LStrip(s, c), c)

\* x.strip('"').strip("'")
StripQuotes(s) == Strip(Strip(s, DQ), SQ)

Digit(d) ==
  CASE d = 0 -> "0" [] d = 1 -> "1" [] d = 2 -> "2" [] d = 3 -> "3" [] d = 4 -> "4"
    [] d = 5 -> "5" [] d = 6 -> "6" [] d = 7 -> "7" [] d = 8 -> "8" [] OTHER -> "9"

RECURSIVE NatStr(_)
NatStr(n) == IF n < 10 THEN <<Digit(n)>> ELSE Append(NatStr(n \div 10), Digit(n % 10))

\* str(n) / f"{n}" of an integer
IntStr(n) == IF n < 0 THEN <<"-">> \o NatStr(0 - n) ELSE NatStr(n)

\* a placeholder without its prefix
FdBare(fd) == IntStr(fd)

\* f"fd:{fd}"
FdPlaceholder(fd) == <<"f", "d", ":">> \o IntStr(fd)

\* f"socket_{pid}_{start_time}"
SocketId(pid, start_time) ==
  <<"s", "o", "c", "k", "e", "t", "_">> \o IntStr(pid) \o <<"_">> \o IntStr(start_time)

\* Python truthiness of an Optional[str]: None and "" are falsy
TruthyStr(o) == o # None /\ Get(o) # <<>>

-----------------------------------------------------------------------------
(* GROUPING_RULES, in the dict's insertion order.  A rule without an        *)
(* 'immediate' entry reads as immediate = False (rule.get('immediate',      *)
(* False)).                                                                 *)

DefaultRules ==
  << [operation |-> "read",
      syscalls |-> {"read", "pread64", "readv", "preadv", "pread"},
      group_by |-> <<"tid", "fd">>, time_gap_ms |-> 100, immediate |-> FALSE],
     [operation |-> "write",
      syscalls |-> {"write", "pwrite64", "writev", "pwritev", "pwrite"},
      group_by |-> <<"tid", "fd">>, time_gap_ms |-> 100, immediate |-> FALSE],
     [operation |-> "open",
      syscalls |-> {"open", "openat", "openat2"},
      group_by |-> <<"tid">>, time_gap_ms |-> 10, immediate |-> TRUE],
     [operation |-> "socket",
      syscalls |-> {"socket"},
      group_by |-> <<"tid">>, time_gap_ms |-> 10, immediate |-> TRUE],
     [operation |-> "close",
      syscalls |-> {"close"},
      group_by |-> <<"tid">>, time_gap_ms |-> 10, immediate |-> TRUE],
     [operation |-> "socket_send",
      syscalls |-> {"send", "sendto", "sendmsg", "sendmmsg", "write"},
      group_by |-> <<"tid", "socket_fd">>, time_gap_ms |-> 50, immediate |-> FALSE],
     [operation |-> "socket_recv",
      syscalls |-> {"recv", "recvfrom", "recvmsg", "recvmmsg", "read"},
      group_by |-> <<"tid", "socket_fd">>, time_gap_ms |-> 50, immediate |-> FALSE],
     [operation |-> "mmap",
      syscalls |-> {"mmap", "mmap2", "munmap", "mremap"},
      group_by |-> <<"tid">>, time_gap_ms |-> 50, immediate |-> FALSE] >>

\* a store that keeps the rule already held under an operation and adds the
\* new one after it
RuleAppend(rules, new) == Append(rules, new)

\* self.GROUPING_RULES[operation] = {...}: an existing key keeps its place in
\* the dict, a new key goes last
RulePut(rules, new) ==
  IF \E i \in 1..Len(rules) : rules[i].operation = new.operation
  THEN [i \in 1..Len(rules) |-> IF rules[i].operation = new.operation THEN new ELSE rules[i]]
  ELSE Append(rules, new)

\* the entry _load_schema_rules stores for one configured rule
LoadedRule(rule) ==
  [operation |-> rule.operation, syscalls |-> rule.syscalls, group_by |-> rule.group_by,
   time_gap_ms |-> 100, immediate |-> FALSE]

\* _load_schema_rules over rules_data
RECURSIVE LoadSchemaRules(_, _)
LoadSchemaRules(rules, rules_data) ==
  IF rules_data = <<>> THEN rules
  ELSE LoadSchemaRules(RulePut(rules, LoadedRule(Head(rules_data))), Tail(rules_data))

-----------------------------------------------------------------------------
(* KernelEvent, as the builder reads it.  idx is the event's position in    *)
(* self.events (its identity).                                              *)

EventData(fd, filename, pathname, ret) ==
  [fd |-> fd, filename |-> filename, pathname |-> pathname, ret |-> ret]

KernelEvent(idx, kind, name, tid, pid, cpu, ts, data) ==
  [idx |-> idx, kind |-> kind, name |-> name, tid |-> tid, pid |-> pid,
   cpu_id |-> cpu, timestamp |-> ts, event_data |-> data]

NoEvent == None

-----------------------------------------------------------------------------
(* The temporal descriptor map *)

Interval(start, end, path) == [start |-> start, end |-> end, path |-> path]

FdKey(pid, fd) == <<pid, fd>>

FdList(fm, key) == IF key \in DOMAIN fm THEN fm[key] ELSE <<>>

\* self.fd_map[key].append(iv), creating the list when the key is new
FdAppend(fm, key, iv) ==
  [k \in DOMAIN fm \cup {key} |-> IF k = key THEN Append(FdList(fm, key), iv) ELSE fm[k]]

\* the start of an interval made by an open or a socket call
OpenStart(pair) == pair.start_time

\* the end written by a close
CloseEnd(pair) == pair.end_time

\* a test that takes any return value for a descriptor
OpenReturned(return_value) == return_value # None

\* `if return_value is not None and return_value >= 0`
OpenSucceeded(return_value) == return_value # None /\ Get(return_value) >= 0

\* `return_value == 0`
CloseSucceeded(return_value) == return_value # None /\ Get(return_value) = 0

\* a scan that stops at the oldest open interval
FirstOpenIndex(l) ==
  LET open == {i \in 1..Len(l) : l[i].end = None}
  IN IF open = {} THEN 0 ELSE CHOOSE i \in open : \A j \in open : i <= j

\* for i in range(len(l) - 1, -1, -1): if end is None: ... break
\* the index the loop stops at, 0 when no interval is open
LastOpenIndex(l) ==
  LET open == {i \in 1..Len(l) : l[i].end = None}
  IN IF open = {} THEN 0 ELSE CHOOSE i \in open : \A j \in open : j <= i

\* _update_fd_mapping on m = [fd_map, created, cleaned]
UpdateFdMapping(m, pair) ==
  LET syscall_name == pair.syscall_name
      pid == pair.pid
      return_value == pair.return_value
  IN IF syscall_name \in {"open", "openat", "openat2"} THEN
       IF OpenSucceeded(return_value) /\ TruthyStr(pair.entry_data.filename) THEN
         LET filename == StripQuotes(Get(pair.entry_data.filename))
             key == FdKey(pid, Get(return_value))
         IN [m EXCEPT !.fd_map = FdAppend(m.fd_map, key, Interval(OpenStart(pair), None, filename)),
                      !.created = m.created + 1]
       ELSE m
     ELSE IF syscall_name = "socket" THEN
       IF OpenSucceeded(return_value) THEN
         LET socket_id == SocketId(pid, pair.start_time)
             key == FdKey(pid, Get(return_value))
         IN [m EXCEPT !.fd_map = FdAppend(m.fd_map, key, Interval(OpenStart(pair), None, socket_id)),
                      !.created = m.created + 1]
       ELSE m
     ELSE IF syscall_name = "close" THEN
       IF pair.entry_data.fd # None /\ CloseSucceeded(return_value) THEN
         LET key == FdKey(pid, Get(pair.entry_data.fd))
             l == FdList(m.fd_map, key)
             i == LastOpenIndex(l)
         IN IF key \in DOMAIN m.fd_map /\ l # <<>> /\ i > 0 THEN
              [m EXCEPT !.fd_map[key][i].end = Some(CloseEnd(pair)),
                        !.cleaned = m.cleaned + 1]
            ELSE m
       ELSE m
     ELSE m

\* a containment test that leaves the closing instant out
ContainsBeforeEnd(iv, op_time) ==
  iv.start <= op_time /\ (iv.end = None \/ op_time < Get(iv.end))

\* `if start_time <= op_time: if end_time is None or op_time <= end_time`
Contains(iv, op_time) ==
  iv.start <= op_time /\ (iv.end = None \/ op_time <= Get(iv.end))

\* _resolve_fd: the path of the first interval, in list order, that contains op_time
ResolveFd(fm, pid, fd, op_time) ==
  LET key == FdKey(pid, fd)
      l == FdList(fm, key)
      hits == {i \in 1..Len(l) : Contains(l[i], op_time)}
  IN IF key \notin DOMAIN fm \/ hits = {} THEN None
     ELSE Some(l[CHOOSE i \in hits : \A j \in hits : i <= j].path)

\* _load_initial_fd_state, given all_fd_mappings as a function (pid, fd) -> name:
\* one (0.0, None, name) interval per key, on an empty fd_map
SeedFdMap(all_fd_mappings) ==
  [k \in DOMAIN all_fd_mappings |-> <<Interval(0, None, all_fd_mappings[k])>>]

-----------------------------------------------------------------------------
(* _pair_syscalls: one iteration of `for event in self.events` *)

\* a pairer that keys pending entries by the syscall name alone
PendingKeyNameOnly(event) == <<0, event.name>>

PendingKey(event) == <<event.tid, event.name>>

\* a store that keeps the entry already pending for the key
PendingKeep(pe, key, event) ==
  [k \in DOMAIN pe \cup {key} |-> IF k \in DOMAIN pe THEN pe[k] ELSE event]

Pair(entry_event, event) ==
  [syscall_name |-> event.name,
   tid |-> event.tid,
   pid |-> event.pid,
   cpu_id |-> event.cpu_id,
   start_time |-> entry_event.timestamp,
   end_time |-> event.timestamp,
   duration |-> event.timestamp - entry_event.timestamp,
   entry_data |-> entry_event.event_data,
   exit_data |-> event.event_data,
   return_value |-> event.event_data.ret]

\* pending_entries[key] = event
PendingPut(pe, key, event) ==
  [k \in DOMAIN pe \cup {key} |-> IF k = key THEN event ELSE pe[k]]

\* pending_entries.pop(key)
PendingPop(pe, key) == [k \in DOMAIN pe \ {key} |-> pe[k]]

\* b = [pending, pairs, origin, m]: the loop body for one event
PairStep(b, event) ==
  IF event.kind = "syscall_entry" THEN
    [b EXCEPT !.pending = PendingPut(b.pending, PendingKey(event), event)]
  ELSE IF event.kind = "syscall_exit" THEN
    LET key == PendingKey(event)
    IN IF key \in DOMAIN b.pending THEN
         LET entry_event == b.pending[key]
             pair == Pair(entry_event, event)
         IN [pending |-> PendingPop(b.pending, key),
             pairs |-> Append(b.pairs, pair),
             origin |-> Append(b.origin, [entry |-> entry_event, exit |-> event]),
             m |-> UpdateFdMapping(b.m, pair)]
       ELSE b
  ELSE b

BuilderState ==
  [pending |-> pending, pairs |-> pairs, origin |-> origin,
   m |-> [fd_map |-> fd_map, created |-> fd_mappings_created, cleaned |-> fd_mappings_cleaned]]

-----------------------------------------------------------------------------
(* _group_by_rule and _create_sequence_from_pairs.  Pairs are handled by    *)
(* their index in syscall_pairs (the identity of the dict object).          *)

\* matching_pairs, as the ascending sequence of indices
RECURSIVE MatchingFrom(_, _, _)
MatchingFrom(ps, rule, i) ==
  IF i > Len(ps) THEN <<>>
  ELSE IF ps[i].syscall_name \in rule.syscalls
       THEN <<i>> \o MatchingFrom(ps, rule, i + 1)
       ELSE MatchingFrom(ps, rule, i + 1)

\* a filter that lets every pair through
MatchingEvery(ps, rule) == [i \in 1..Len(ps) |-> i]

MatchingPairs(ps, rule) == MatchingFrom(ps, rule, 1)

\* one part of the grouping key; str() of an integer is kept as the integer
KeyPart(pair, key_field) ==
  IF key_field = "fd" \/ key_field = "socket_fd" THEN
    IF pair.entry_data.fd # None THEN <<"v", Get(pair.entry_data.fd)>> ELSE <<"no_fd">>
  ELSE IF key_field = "tid" THEN <<"v", pair.tid>>
  ELSE IF key_field = "pid" THEN <<"v", pair.pid>>
  ELSE IF key_field = "cpu_id" THEN <<"v", pair.cpu_id>>
  ELSE <<"unknown">>

\* group_key = ':'.join(key_parts)
GroupKey(pair, rule) ==
  [i \in 1..Len(rule.group_by) |-> KeyPart(pair, rule.group_by[i])]

\* the keys of `groups`, in the order the defaultdict first saw them
RECURSIVE KeyOrder(_, _, _, _)
KeyOrder(ps, rule, matching, seen) ==
  IF matching = <<>> THEN seen
  ELSE LET k == GroupKey(ps[Head(matching)], rule)
       IN IF \E j \in 1..Len(seen) : seen[j] = k
          THEN KeyOrder(ps, rule, Tail(matching), seen)
          ELSE KeyOrder(ps, rule, Tail(matching), Append(seen, k))

\* groups[key], in insertion order
RECURSIVE GroupOf(_, _, _, _)
GroupOf(ps, rule, matching, key) ==
  IF matching = <<>> THEN <<>>
  ELSE IF GroupKey(ps[Head(matching)], rule) = key
       THEN <<Head(matching)>> \o GroupOf(ps, rule, Tail(matching), key)
       ELSE GroupOf(ps, rule, Tail(matching), key)

\* insert index p behind every element whose start_time is <= its own
RECURSIVE InsertByStart(_, _, _)
InsertByStart(ps, sorted, p) ==
  IF sorted = <<>> THEN <<p>>
  ELSE IF ps[Head(sorted)].start_time <= ps[p].start_time
       THEN <<Head(sorted)>> \o InsertByStart(ps, Tail(sorted), p)
       ELSE <<p>> \o sorted

\* group_pairs.sort(key=lambda p: p['start_time'])  (stable)
RECURSIVE SortByStart(_, _, _)
SortByStart(ps, group, acc) ==
  IF group = <<>> THEN acc
  ELSE SortByStart(ps, Tail(group), InsertByStart(ps, acc, Head(group)))

\* time_gap_threshold, in the model's time unit
TimeGapThreshold(rule) == rule.time_gap_ms

\* a gap test that passes every gap
WithinAnyGap(time_gap, time_gap_threshold) == TRUE

\* a gap test that leaves the threshold itself out
WithinGapStrict(time_gap, time_gap_threshold) == time_gap < time_gap_threshold

\* `if time_gap <= time_gap_threshold`
WithinGap(time_gap, time_gap_threshold) == time_gap <= time_gap_threshold

\* the batching loop over group_pairs[1:], with current_batch = cur_batch
RECURSIVE BatchLoop(_, _, _, _, _)
BatchLoop(ps, rest, cur_batch, done, thr) ==
  IF rest = <<>> THEN Append(done, cur_batch)
  ELSE LET p == Head(rest)
           time_gap == ps[p].start_time - ps[cur_batch[Len(cur_batch)]].end_time
       IN IF WithinGap(time_gap, thr)
          THEN BatchLoop(ps, Tail(rest), Append(cur_batch, p), done, thr)
          ELSE BatchLoop(ps, Tail(rest), <<p>>, Append(done, cur_batch), thr)

\* a grouper that ignores the immediate flag
NeverImmediate(rule) == FALSE

\* `immediate = rule.get('immediate', False)`
IsImmediate(rule) == rule.immediate

\* the batches one group yields, in the order their sequences are created
GroupBatches(ps, rule, group) ==
  LET group_pairs == SortByStart(ps, group, <<>>)
  IN IF IsImmediate(rule)
     THEN [i \in 1..Len(group_pairs) |-> <<group_pairs[i]>>]
     ELSE BatchLoop(ps, Tail(group_pairs), <<Head(group_pairs)>>, <<>>, TimeGapThreshold(rule))

RECURSIVE RuleBatchesFrom(_, _, _, _)
RuleBatchesFrom(ps, rule, matching, keys) ==
  IF keys = <<>> THEN <<>>
  ELSE GroupBatches(ps, rule, GroupOf(ps, rule, matching, Head(keys)))
         \o RuleBatchesFrom(ps, rule, matching, Tail(keys))

\* every batch _group_by_rule turns into a sequence, in creation order
RuleBatches(ps, rule) ==
  LET matching == MatchingPairs(ps, rule)
  IN RuleBatchesFrom(ps, rule, matching, KeyOrder(ps, rule, matching, <<>>))

\* a byte count that takes the wrong sign
CountsNegative(ret_val) == ret_val # None /\ Get(ret_val) < 0

\* a byte count that adds every return value that is present
CountsAll(ret_val) == ret_val # None

\* `if ret_val and ret_val > 0`
CountsAsBytes(ret_val) == ret_val # None /\ Get(ret_val) # 0 /\ Get(ret_val) > 0

RECURSIVE BytesTransferred(_, _)
BytesTransferred(ps, batch) ==
  IF batch = <<>> THEN 0
  ELSE (IF CountsAsBytes(ps[Head(batch)].return_value)
        THEN Get(ps[Head(batch)].return_value) ELSE 0)
       + BytesTransferred(ps, Tail(batch))

\* the entity_target branch of _create_sequence_from_pairs:
\* [target, resolved] where resolved says fd_mappings_resolved was incremented
EntityTarget(ps, fm, batch, operation) ==
  LET first == ps[batch[1]]
  IN IF TruthyStr(first.entry_data.filename) THEN
       [target |-> first.entry_data.filename, resolved |-> FALSE]
     ELSE IF TruthyStr(first.entry_data.pathname) THEN
       [target |-> first.entry_data.pathname, resolved |-> FALSE]
     ELSE IF operation = "socket" THEN
       IF first.return_value # None /\ Get(first.return_value) >= 0 THEN
         LET resolved_socket == ResolveFd(fm, first.pid, Get(first.return_value), first.start_time)
         IN IF TruthyStr(resolved_socket)
            THEN [target |-> resolved_socket, resolved |-> TRUE]
            ELSE [target |-> None, resolved |-> FALSE]
       ELSE [target |-> None, resolved |-> FALSE]
     ELSE IF first.entry_data.fd # None THEN
       LET fd == Get(first.entry_data.fd)
           resolved_path == ResolveFd(fm, first.pid, fd, first.start_time)
       IN IF TruthyStr(resolved_path)
          THEN [target |-> resolved_path, resolved |-> TRUE]
          ELSE [target |-> Some(FdPlaceholder(fd)), resolved |-> FALSE]
     ELSE [target |-> None, resolved |-> FALSE]

\* one entry of event_stream; src is the index of the pair it projects
StreamEntry(ps, p) ==
  [timestamp |-> ps[p].start_time,
   syscall |-> ps[p].syscall_name,
   duration |-> ps[p].duration,
   return_value |-> ps[p].return_value,
   key_params |-> [fd |-> ps[p].entry_data.fd],
   src |-> p]

\* a sequence id that names the operation only
SequenceIdOfOperation(operation, counter) == <<"seq", operation>>

\* f"seq_{operation}_{self.sequence_counter}": the text after the last
\* underscore is the counter, so the id determines the pair
SequenceId(operation, counter) == <<"seq", operation, counter>>

\* _create_sequence_from_pairs, with counter the incremented sequence_counter
CreateSequenceFromPairs(ps, fm, batch, operation, counter) ==
  [sequence_id |-> SequenceId(operation, counter),
   operation |-> operation,
   start_time |-> ps[batch[1]].start_time,
   end_time |-> ps[batch[Len(batch)]].end_time,
   count |-> Len(batch),
   event_stream |-> [i \in 1..Len(batch) |-> StreamEntry(ps, batch[i])],
   entity_target |-> EntityTarget(ps, fm, batch, operation).target,
   return_value |-> ps[batch[Len(batch)]].return_value,
   bytes_transferred |-> BytesTransferred(ps, batch),
   thread_id |-> ps[batch[1]].tid,
   process_id |-> ps[batch[1]].pid,
   cpu_id |-> ps[batch[1]].cpu_id]

\* the (operation, batch) jobs of build_sequences' loop over GROUPING_RULES
RECURSIVE AllBatches(_, _)
AllBatches(ps, rules) ==
  IF rules = <<>> THEN <<>>
  ELSE LET rb == RuleBatches(ps, Head(rules))
       IN [i \in 1..Len(rb) |-> [operation |-> Head(rules).operation, batch |-> rb[i]]]
            \o AllBatches(ps, Tail(rules))

RECURSIVE InsertSeqByStart(_, _)
InsertSeqByStart(sorted, s) ==
  IF sorted = <<>> THEN <<s>>
  ELSE IF Head(sorted).start_time <= s.start_time
       THEN <<Head(sorted)>> \o InsertSeqByStart(Tail(sorted), s)
       ELSE <<s>> \o sorted

\* the sequences left in the order the operations produced them
KeepOrder(seqs, acc) == acc \o seqs

\* self.sequences.sort(key=lambda s: s.start_time)  (stable)
RECURSIVE SortSequences(_, _)
SortSequences(seqs, acc) ==
  IF seqs = <<>> THEN acc
  ELSE SortSequences(Tail(seqs), InsertSeqByStart(acc, Head(seqs)))

\* the second pass of build_sequences on the paired syscalls ps:
\* [sequences, counter, resolved]
BuildFrom(ps, fm, rules, counter0) ==
  LET jobs == AllBatches(ps, rules)
      made == [i \in 1..Len(jobs) |->
                 CreateSequenceFromPairs(ps, fm, jobs[i].batch, jobs[i].operation, counter0 + i)]
      nres == Cardinality({i \in 1..Len(jobs) :
                 EntityTarget(ps, fm, jobs[i].batch, jobs[i].operation).resolved})
  IN [sequences |-> SortSequences(made, <<>>),
      counter |-> counter0 + Len(jobs),
      resolved |-> nres]

-----------------------------------------------------------------------------
(* Bounds and input sets *)

MaxEvents == 3        \* events fed to the pairing loop, one at a time
MaxSyscalls == 3      \* syscalls (entry directly followed by its exit) of SpecFd
MaxStamp == 1         \* largest timestamp of an event of Spec
MaxTime == 3          \* largest entry timestamp of SpecFd
MaxScenario == 5      \* syscalls of SpecScenario
MaxBurst == 3         \* syscalls of SpecGap

Times == 0..MaxTime
QueryTimes == 0..(MaxTime + 2)

TheFd == 5            \* the descriptor number of the scenarios
ThePid == 1

TmpA == <<"/", "t", "m", "p", "/", "a">>
TmpB == <<"/", "t", "m", "p", "/", "b">>
Seeded == <<"/", "o", "l", "d">>

\* all_fd_mappings of the snapshot: none, or one descriptor already open
Snapshots == {<<>>, [k \in {FdKey(ThePid, TheFd)} |-> Seeded]}

-----------------------------------------------------------------------------
(* State after EventSequenceBuilder.__init__ and TraceParser.__init__ *)

InitParser ==
  /\ tid_context = <<>>
  /\ cpu_context = <<>>
  /\ context_updates = 0
  /\ parse_errors = 0
  /\ total_lines = 0
  /\ emitted = None
  /\ nparsed = 0
  /\ sw = <<>>
  /\ last_line = None

NoEntities ==
  [processes |-> <<>>, threads |-> <<>>, files |-> <<>>, sockets |-> <<>>, cpus |-> <<>>,
   pid_to_threads |-> <<>>, fd_to_file |-> <<>>, fd_to_socket |-> <<>>]

InitExtractor ==
  /\ x_events = <<>>
  /\ entities = NoEntities
  /\ extracted = FALSE

NoInput == [lines |-> <<>>, snapshot |-> <<>>]

InitRun ==
  /\ run = 1
  /\ input = NoInput
  /\ first_run = None

InitStamp ==
  /\ timestamp_str = None
  /\ timestamp = None

\* _parse_lsof_output before its first line
InitLsof ==
  /\ fd_mappings = <<>>
  /\ current_pid = None
  /\ current_fd = None
  /\ nlsof = 0
  /\ block = <<>>
  /\ loaded = FALSE

InitBuilderWith(snapshot, rules_data) ==
  /\ grouping_rules = LoadSchemaRules(DefaultRules, rules_data)
  /\ schema_rules = rules_data
  /\ nevents = 0
  /\ pending = <<>>
  /\ pairs = <<>>
  /\ origin = <<>>
  /\ fd_map = SeedFdMap(snapshot)
  /\ fd_mappings_created = 0
  /\ fd_mappings_resolved = 0
  /\ fd_mappings_cleaned = 0
  /\ fd_mappings_from_lsof = Cardinality(DOMAIN snapshot)
  /\ sequences = <<>>
  /\ sequence_counter = 0
  /\ phase = "pairing"
  /\ cur = NoEvent
  /\ dropped = {}

InitBuilder(snapshot) == InitBuilderWith(snapshot, <<>>)

-----------------------------------------------------------------------------
(* Actions of the builder *)

SetBuilder(b) ==
  /\ pending' = b.pending
  /\ pairs' = b.pairs
  /\ origin' = b.origin
  /\ fd_map' = b.m.fd_map
  /\ fd_mappings_created' = b.m.created
  /\ fd_mappings_cleaned' = b.m.cleaned

\* the idx of the pending entry that storing `event` overwrites, if any
Overwritten(pe, event) ==
  IF event.kind = "syscall_entry" /\ PendingKey(event) \in DOMAIN pe
  THEN {pe[PendingKey(event)].idx} ELSE {}

\* one iteration of the loop of _pair_syscalls
ProcessEvent(event) ==
  /\ phase = "pairing"
  /\ event.idx = nevents + 1
  /\ SetBuilder(PairStep(BuilderState, event))
  /\ nevents' = nevents + 1
  /\ cur' = Some(event)
  /\ dropped' = dropped \cup Overwritten(pending, event)
  /\ UNCHANGED <<grouping_rules, schema_rules, fd_mappings_resolved, fd_mappings_from_lsof,
                 sequences, sequence_counter, phase, pvars, xvars, rvars, tvars, lvars>>

\* two iterations: a syscall's entry event, directly followed by its exit event
ProcessSyscall(entry_event, exit_event) ==
  /\ phase = "pairing"
  /\ entry_event.idx = nevents + 1
  /\ exit_event.idx = nevents + 2
  /\ SetBuilder(PairStep(PairStep(BuilderState, entry_event), exit_event))
  /\ nevents' = nevents + 2
  /\ cur' = Some(exit_event)
  /\ dropped' = dropped \cup Overwritten(pending, entry_event)
  /\ UNCHANGED <<grouping_rules, schema_rules, fd_mappings_resolved, fd_mappings_from_lsof,
                 sequences, sequence_counter, phase, pvars, xvars, rvars, tvars, lvars>>

\* build_sequences after its first pass: group, extend, sort
BuildSequences ==
  /\ phase = "pairing"
  /\ LET r == BuildFrom(pairs, fd_map, grouping_rules, sequence_counter)
     IN /\ sequences' = r.sequences
        /\ sequence_counter' = r.counter
        /\ fd_mappings_resolved' = fd_mappings_resolved + r.resolved
  /\ phase' = "built"
  /\ UNCHANGED <<grouping_rules, schema_rules, nevents, pending, pairs, origin, fd_map,
                 fd_mappings_created, fd_mappings_cleaned, fd_mappings_from_lsof,
                 cur, dropped, pvars, xvars, rvars, tvars, lvars>>

\* EventSequence.duration_ms, in the model's time unit
DurationMs(seq) == seq.end_time - seq.start_time

\* operation_counts[op]
RECURSIVE OperationCount(_, _)
OperationCount(seqs, op) ==
  IF seqs = <<>> THEN 0
  ELSE (IF Head(seqs).operation = op THEN 1 ELSE 0) + OperationCount(Tail(seqs), op)

\* sum(operation_durations[op])
RECURSIVE DurationSum(_, _)
DurationSum(seqs, op) ==
  IF seqs = <<>> THEN 0
  ELSE (IF Head(seqs).operation = op THEN DurationMs(Head(seqs)) ELSE 0)
       + DurationSum(Tail(seqs), op)

\* total_bytes
RECURSIVE TotalBytes(_)
TotalBytes(seqs) ==
  IF seqs = <<>> THEN 0 ELSE Head(seqs).bytes_transferred + TotalBytes(Tail(seqs))

\* _generate_summary; an average is kept as (sum of durations, how many)
GenerateSummary(seqs) ==
  LET ops == {seqs[n].operation : n \in 1..Len(seqs)}
  IN [total_sequences |-> Len(seqs),
      operations |-> [op \in ops |-> OperationCount(seqs, op)],
      total_bytes_transferred |-> TotalBytes(seqs),
      average_durations_ms |->
        [op \in ops |-> <<DurationSum(seqs, op), OperationCount(seqs, op)>>]]

-----------------------------------------------------------------------------
(* Spec: the pairing loop fed one event at a time, timestamps in any order, *)
(* then the grouping.                                                       *)

PairerTids == {1, 2}
PairerNames == {"read", "close"}
PairerTimes == 0..MaxStamp

PairerEvents(idx) ==
  {KernelEvent(idx, "syscall_entry", n, t, ThePid, 0, ts, EventData(Some(TheFd), None, None, None)) :
     n \in PairerNames, t \in PairerTids, ts \in PairerTimes}
  \cup
  {KernelEvent(idx, "syscall_exit", n, t, ThePid, 0, ts, EventData(None, None, None, Some(0))) :
     n \in PairerNames, t \in PairerTids, ts \in PairerTimes}
  \cup
  {KernelEvent(idx, "sched_switch", "", t, ThePid, 0, ts, EventData(None, None, None, None)) :
     t \in PairerTids, ts \in PairerTimes}

PairerFeed ==
  /\ nevents < MaxEvents
  /\ \E event \in PairerEvents(nevents + 1) : ProcessEvent(event)

Init == InitBuilder(<<>>) /\ InitParser /\ InitExtractor /\ InitRun /\ InitStamp /\ InitLsof

Next == PairerFeed \/ BuildSequences

Spec == Init /\ [][Next]_vars

-----------------------------------------------------------------------------
(* SpecFd: the descriptor map under whole syscalls (an entry event directly *)
(* followed by its exit event, one time unit later), entry timestamps in    *)
(* any order, with or without a descriptor snapshot.                        *)

FdFileNames == {TmpA, TmpB}

\* (entry event, exit event) of one syscall entered at ts
FdSyscalls(idx, ts) ==
  {<<KernelEvent(idx, "syscall_entry", "openat", 1, ThePid, 0, ts,
                 EventData(None, Some(f), None, None)),
     KernelEvent(idx + 1, "syscall_exit", "openat", 1, ThePid, 0, ts + 1,
                 EventData(None, None, None, Some(r)))>> :
     f \in FdFileNames, r \in {TheFd}}
  \cup
  {<<KernelEvent(idx, "syscall_entry", "socket", 1, ThePid, 0, ts,
                 EventData(None, None, None, None)),
     KernelEvent(idx + 1, "syscall_exit", "socket", 1, ThePid, 0, ts + 1,
                 EventData(None, None, None, Some(TheFd)))>>}
  \cup
  {<<KernelEvent(idx, "syscall_entry", "close", 1, ThePid, 0, ts,
                 EventData(Some(TheFd), None, None, None)),
     KernelEvent(idx + 1, "syscall_exit", "close", 1, ThePid, 0, ts + 1,
                 EventData(None, None, None, Some(r)))>> :
     r \in {0, -1}}

FdFeed ==
  /\ nevents < 2 * MaxSyscalls
  /\ \E ts \in Times : \E sc \in FdSyscalls(nevents + 1, ts) : ProcessSyscall(sc[1], sc[2])

InitFd == (\E snapshot \in Snapshots : InitBuilder(snapshot)) /\ InitParser /\ InitExtractor /\ InitRun /\ InitStamp /\ InitLsof

NextFd == FdFeed

SpecFd == InitFd /\ [][NextFd]_vars

-----------------------------------------------------------------------------
(* SpecScenario: one thread issuing whole syscalls on one descriptor, each  *)
(* entered one time unit after the previous event and left one unit later,  *)
(* then build_sequences.                                                    *)

\* the timestamp of the last event fed, 0 before the first
Clock == IF cur = NoEvent THEN 0 ELSE Get(cur).timestamp

ScenarioSyscalls(idx, ts) ==
  {<<KernelEvent(idx, "syscall_entry", "openat", 1, ThePid, 0, ts,
                 EventData(None, Some(f), None, None)),
     KernelEvent(idx + 1, "syscall_exit", "openat", 1, ThePid, 0, ts + 1,
                 EventData(None, None, None, Some(TheFd)))>> :
     f \in FdFileNames}
  \cup
  {<<KernelEvent(idx, "syscall_entry", "read", 1, ThePid, 0, ts,
                 EventData(Some(TheFd), None, None, None)),
     KernelEvent(idx + 1, "syscall_exit", "read", 1, ThePid, 0, ts + 1,
                 EventData(None, None, None, Some(r)))>> :
     r \in {10, 0}}
  \cup
  {<<KernelEvent(idx, "syscall_entry", "close", 1, ThePid, 0, ts,
                 EventData(Some(TheFd), None, None, None)),
     KernelEvent(idx + 1, "syscall_exit", "close", 1, ThePid, 0, ts + 1,
                 EventData(None, None, None, Some(0)))>>}

ScenarioFeed ==
  /\ nevents < 2 * MaxScenario
  /\ \E sc \in ScenarioSyscalls(nevents + 1, Clock + 1) : ProcessSyscall(sc[1], sc[2])

InitScenario == (\E snapshot \in Snapshots : InitBuilder(snapshot)) /\ InitParser /\ InitExtractor /\ InitRun /\ InitStamp /\ InitLsof

NextScenario == ScenarioFeed \/ BuildSequences

SpecScenario == InitScenario /\ [][NextScenario]_vars

-----------------------------------------------------------------------------
(* SpecGap: bursts of whole syscalls of two threads on two descriptors,     *)
(* each entered at a chosen distance from the previous event's timestamp    *)
(* (at, just below and just above the thresholds of the rules; a negative   *)
(* distance puts the entry before the previous exit), then build_sequences. *)

GapChoices == {-2, 50, 100, 101}

GapSyscalls(idx, ts) ==
  {<<KernelEvent(idx, "syscall_entry", "read", t, ThePid, 0, ts,
                 EventData(Some(fd), None, None, None)),
     KernelEvent(idx + 1, "syscall_exit", "read", t, ThePid, 0, ts + 1,
                 EventData(None, None, None, Some(10)))>> :
     <<t, fd>> \in {<<1, TheFd>>, <<1, TheFd + 1>>, <<2, TheFd>>}}
  \cup
  {<<KernelEvent(idx, "syscall_entry", "openat", 1, ThePid, 0, ts,
                 EventData(None, Some(TmpA), None, None)),
     KernelEvent(idx + 1, "syscall_exit", "openat", 1, ThePid, 0, ts + 1,
                 EventData(None, None, None, Some(TheFd)))>>}

GapFeed ==
  /\ nevents < 2 * MaxBurst
  /\ \E g \in GapChoices :
       /\ Clock + g >= 0
       /\ \E sc \in GapSyscalls(nevents + 1, Clock + g) : ProcessSyscall(sc[1], sc[2])

InitGap == InitBuilder(<<>>) /\ InitParser /\ InitExtractor /\ InitRun /\ InitStamp /\ InitLsof

NextGap == GapFeed \/ BuildSequences

SpecGap == InitGap /\ [][NextGap]_vars

-----------------------------------------------------------------------------
(* SpecThreads: two threads of one process, each entering a syscall (openat *)
(* or close on one descriptor number) when it is in none and leaving it     *)
(* later; the events of the two threads interleave freely and timestamps    *)
(* grow by one unit per event.                                              *)

MaxInterleaved == 6   \* events of SpecThreads

ThreadTids == {1, 2}

InSyscall(t) == \E k \in DOMAIN pending : k[1] = t

ThreadEntries(idx, t, ts) ==
  {KernelEvent(idx, "syscall_entry", "openat", t, ThePid, 0, ts,
               EventData(None, Some(IF t = 1 THEN TmpA ELSE TmpB), None, None)),
   KernelEvent(idx, "syscall_entry", "close", t, ThePid, 0, ts,
               EventData(Some(TheFd), None, None, None))}

ThreadExit(idx, t, ts) ==
  LET name == (CHOOSE k \in DOMAIN pending : k[1] = t)[2]
  IN KernelEvent(idx, "syscall_exit", name, t, ThePid, 0, ts,
                 EventData(None, None, None, Some(IF name = "close" THEN 0 ELSE TheFd)))

ThreadEnters ==
  /\ nevents < MaxInterleaved
  /\ \E t \in ThreadTids :
       /\ ~InSyscall(t)
       /\ \E event \in ThreadEntries(nevents + 1, t, Clock + 1) : ProcessEvent(event)

ThreadLeaves ==
  /\ nevents < MaxInterleaved
  /\ \E t \in ThreadTids :
       /\ InSyscall(t)
       /\ ProcessEvent(ThreadExit(nevents + 1, t, Clock + 1))

InitThreads == InitBuilder(<<>>) /\ InitParser /\ InitExtractor /\ InitRun /\ InitStamp /\ InitLsof

NextThreads == ThreadEnters \/ ThreadLeaves

SpecThreads == InitThreads /\ [][NextThreads]_vars

-----------------------------------------------------------------------------
(* SpecBytes: reads of one thread on one descriptor with positive, zero,    *)
(* negative and missing return values, one time unit apart, then            *)
(* build_sequences.                                                         *)

MaxReads == 3

ReadReturns == {Some(10), Some(3), Some(0), Some(-1), None}

BytesSyscalls(idx, ts) ==
  {<<KernelEvent(idx, "syscall_entry", "read", 1, ThePid, 0, ts,
                 EventData(Some(TheFd), None, None, None)),
     KernelEvent(idx + 1, "syscall_exit", "read", 1, ThePid, 0, ts + 1,
                 EventData(None, None, None, r))>> :
     r \in ReadReturns}

BytesFeed ==
  /\ nevents < 2 * MaxReads
  /\ \E sc \in BytesSyscalls(nevents + 1, Clock + 1) : ProcessSyscall(sc[1], sc[2])

InitBytes == InitBuilder(<<>>) /\ InitParser /\ InitExtractor /\ InitRun /\ InitStamp /\ InitLsof

NextBytes == BytesFeed \/ BuildSequences

SpecBytes == InitBytes /\ [][NextBytes]_vars

-----------------------------------------------------------------------------
(* SpecConfig: a builder constructed with a schema configuration that      *)
(* overrides the read rule (time_gap_ms 20) or the write rule (immediate), *)
(* fed whole reads and writes of one thread at distances just below and     *)
(* just above the configured gap, then build_sequences.                     *)

MaxConfigured == 3

ConfiguredGap == 20

SchemaConfigs ==
  { << [operation |-> "read", syscalls |-> {"read"}, group_by |-> <<"tid", "fd">>,
        time_gap_ms |-> ConfiguredGap, immediate |-> FALSE] >>,
    << [operation |-> "write", syscalls |-> {"write"}, group_by |-> <<"tid", "fd">>,
        time_gap_ms |-> ConfiguredGap, immediate |-> TRUE] >> }

ConfigChoices == {ConfiguredGap - 1, ConfiguredGap + 1}

ConfigSyscalls(idx, ts) ==
  {<<KernelEvent(idx, "syscall_entry", n, 1, ThePid, 0, ts,
                 EventData(Some(TheFd), None, None, None)),
     KernelEvent(idx + 1, "syscall_exit", n, 1, ThePid, 0, ts + 1,
                 EventData(None, None, None, Some(10)))>> :
     n \in {"read", "write"}}

ConfigFeed ==
  /\ nevents < 2 * MaxConfigured
  /\ \E g \in ConfigChoices :
       \E sc \in ConfigSyscalls(nevents + 1, Clock + g) : ProcessSyscall(sc[1], sc[2])

InitConfig == (\E rules_data \in SchemaConfigs : InitBuilderWith(<<>>, rules_data)) /\ InitParser /\ InitExtractor /\ InitRun /\ InitStamp /\ InitLsof

NextConfig == ConfigFeed \/ BuildSequences

SpecConfig == InitConfig /\ [][NextConfig]_vars

-----------------------------------------------------------------------------
(* SpecFailed: whole syscalls of one thread, one time unit apart: openat,   *)
(* socket and close that succeed, fail or carry no return value, reads, and *)
(* fsync, which no default rule lists; then build_sequences.                *)

MaxFailed == 3

OpenReturns == {Some(TheFd), Some(-1), None}
CloseReturns == {Some(0), Some(-1), None}

FailedSyscalls(idx, ts) ==
  {<<KernelEvent(idx, "syscall_entry", "openat", 1, ThePid, 0, ts,
                 EventData(None, Some(TmpA), None, None)),
     KernelEvent(idx + 1, "syscall_exit", "openat", 1, ThePid, 0, ts + 1,
                 EventData(None, None, None, r))>> :
     r \in OpenReturns}
  \cup
  {<<KernelEvent(idx, "syscall_entry", "socket", 1, ThePid, 0, ts,
                 EventData(None, None, None, None)),
     KernelEvent(idx + 1, "syscall_exit", "socket", 1, ThePid, 0, ts + 1,
                 EventData(None, None, None, r))>> :
     r \in OpenReturns}
  \cup
  {<<KernelEvent(idx, "syscall_entry", "close", 1, ThePid, 0, ts,
                 EventData(Some(TheFd), None, None, None)),
     KernelEvent(idx + 1, "syscall_exit", "close", 1, ThePid, 0, ts + 1,
                 EventData(None, None, None, r))>> :
     r \in CloseReturns}
  \cup
  {<<KernelEvent(idx, "syscall_entry", "read", 1, ThePid, 0, ts,
                 EventData(Some(TheFd), None, None, None)),
     KernelEvent(idx + 1, "syscall_exit", "read", 1, ThePid, 0, ts + 1,
                 EventData(None, None, None, Some(10)))>>,
   <<KernelEvent(idx, "syscall_entry", "fsync", 1, ThePid, 0, ts,
                 EventData(Some(TheFd), None, None, None)),
     KernelEvent(idx + 1, "syscall_exit", "fsync", 1, ThePid, 0, ts + 1,
                 EventData(None, None, None, Some(0)))>>}

FailedFeed ==
  /\ nevents < 2 * MaxFailed
  /\ \E sc \in FailedSyscalls(nevents + 1, Clock + 1) : ProcessSyscall(sc[1], sc[2])

InitFailed == InitBuilder(<<>>) /\ InitParser /\ InitExtractor /\ InitRun /\ InitStamp /\ InitLsof

NextFailed == FailedFeed \/ BuildSequences

SpecFailed == InitFailed /\ [][NextFailed]_vars

-----------------------------------------------------------------------------
(* SpecOverlap: one thread's read and pread64 events on one descriptor, one *)
(* at a time with growing timestamps; an entry may arrive while another     *)
(* call is pending and an exit without its entry (events the tracer lost),  *)
(* then build_sequences.                                                    *)

MaxOverlap == 4

OverlapEvents(idx, ts) ==
  {KernelEvent(idx, "syscall_entry", n, 1, ThePid, 0, ts, EventData(Some(TheFd), None, None, None)) :
     n \in {"read", "pread64"}}
  \cup
  {KernelEvent(idx, "syscall_exit", n, 1, ThePid, 0, ts, EventData(None, None, None, Some(10))) :
     n \in {"read", "pread64"}}

OverlapFeed ==
  /\ nevents < MaxOverlap
  /\ \E event \in OverlapEvents(nevents + 1, Clock + 1) : ProcessEvent(event)

InitOverlap == InitBuilder(<<>>) /\ InitParser /\ InitExtractor /\ InitRun /\ InitStamp /\ InitLsof

NextOverlap == OverlapFeed \/ BuildSequences

SpecOverlap == InitOverlap /\ [][NextOverlap]_vars

-----------------------------------------------------------------------------
(* TraceParser.  A field value of event_data is what _parse_event_data      *)
(* left: <<"int", n>> for an integer, <<"str", s>> for a string (which      *)
(* int() rejects with ValueError).                                          *)

IntV(n) == <<"int", n>>
StrV(s) == <<"str", s>>
IsInt(v) == v[1] = "int"

\* int(v) raises ValueError on a string that is not a number
IntRaises(o) == o # None /\ ~IsInt(Get(o))

\* int(v) of a present integer value
IntOf(o) == Get(o)[2]

\* str(v) of a present value
StrOf(o) == IF IsInt(Get(o)) THEN IntStr(Get(o)[2]) ELSE Get(o)[2]

\* str(v).strip('"').strip("'")
CleanComm(o) == StripQuotes(StrOf(o))

RECURSIVE AfterLastSlash(_, _)
AfterLastSlash(s, acc) ==
  IF s = <<>> THEN acc
  ELSE IF Head(s) = "/" THEN AfterLastSlash(Tail(s), <<>>)
       ELSE AfterLastSlash(Tail(s), Append(acc, Head(s)))

\* str(filename).split('/')[-1].strip('"').strip("'")
ExecComm(o) == StripQuotes(AfterLastSlash(StrOf(o), <<>>))

NoFields ==
  [cpu_id |-> None, pid |-> None, vpid |-> None, parent_pid |-> None, child_pid |-> None,
   tid |-> None, vtid |-> None, child_tid |-> None, parent_tid |-> None,
   next_tid |-> None, prev_tid |-> None,
   procname |-> None, comm |-> None, child_comm |-> None, parent_comm |-> None,
   next_comm |-> None, prev_comm |-> None, filename |-> None, pathname |-> None,
   fd |-> None, ret |-> None]

\* dict.get(a, dict.get(b, dict.get(c, None)))
FirstOf(a, b, c) == IF a # None THEN a ELSE IF b # None THEN b ELSE c

CtxPut(tc, tid, pid, comm) ==
  [t \in DOMAIN tc \cup {tid} |-> IF t = tid THEN [pid |-> pid, comm |-> comm] ELSE tc[t]]

CpuPut(cc, cpu, tid) == [c \in DOMAIN cc \cup {cpu} |-> IF c = cpu THEN tid ELSE cc[c]]

SchedStatTypes == {"sched_stat_runtime", "sched_stat_sleep", "sched_stat_wait", "sched_stat_iowait"}

\* one `if tid not in self.tid_context` registration; c.raised ends the handler
RegisterIfNew(c, tid_o, comm_o) ==
  IF c.raised \/ tid_o = None \/ comm_o = None THEN c
  ELSE IF IntRaises(tid_o) THEN [c EXCEPT !.raised = TRUE]
  ELSE IF IntOf(tid_o) \notin DOMAIN c.tc
       THEN [c EXCEPT !.tc = CtxPut(c.tc, IntOf(tid_o), IntOf(tid_o), CleanComm(comm_o)),
                      !.cu = c.cu + 1]
       ELSE c

\* one half of the sched_process_fork branch
RegisterFork(c, tid_o, pid_o, comm_o) ==
  IF c.raised \/ tid_o = None \/ pid_o = None \/ comm_o = None THEN c
  ELSE IF IntRaises(pid_o) \/ IntRaises(tid_o) THEN [c EXCEPT !.raised = TRUE]
  ELSE [c EXCEPT !.tc = CtxPut(c.tc, IntOf(tid_o), IntOf(pid_o), CleanComm(comm_o)),
                 !.cu = c.cu + 1]

\* a cpu_context update that records the outgoing thread
SwitchCpuPrev(c, d) ==
  IF d.cpu_id = None \/ d.prev_tid = None THEN c
  ELSE IF IntRaises(d.cpu_id) \/ IntRaises(d.prev_tid) THEN [c EXCEPT !.raised = TRUE]
  ELSE [c EXCEPT !.cc = CpuPut(c.cc, IntOf(d.cpu_id), IntOf(d.prev_tid))]

\* the cpu_context update of the sched_switch branch
SwitchCpu(c, d) ==
  IF d.cpu_id = None \/ d.next_tid = None THEN c
  ELSE IF IntRaises(d.cpu_id) \/ IntRaises(d.next_tid) THEN [c EXCEPT !.raised = TRUE]
  ELSE [c EXCEPT !.cc = CpuPut(c.cc, IntOf(d.cpu_id), IntOf(d.next_tid))]

\* the next (incoming) thread of the sched_switch branch
SwitchNext(c, d) ==
  IF c.raised \/ d.next_tid = None \/ d.next_comm = None THEN c
  ELSE IF IntRaises(d.next_tid) THEN [c EXCEPT !.raised = TRUE]
  ELSE LET next_tid == IntOf(d.next_tid)
           next_comm == CleanComm(d.next_comm)
       IN IF next_tid \notin DOMAIN c.tc
          THEN [c EXCEPT !.tc = CtxPut(c.tc, next_tid, next_tid, next_comm), !.cu = c.cu + 1]
          ELSE IF c.tc[next_tid].comm # next_comm
               THEN [c EXCEPT !.tc = CtxPut(c.tc, next_tid, c.tc[next_tid].pid, next_comm),
                              !.cu = c.cu + 1]
               ELSE c

\* an exec that takes the tid as the pid
ExecResetsPid(c, d) ==
  IF d.tid = None \/ d.filename = None THEN c
  ELSE IF IntRaises(d.tid) THEN [c EXCEPT !.raised = TRUE]
  ELSE [c EXCEPT !.tc = CtxPut(c.tc, IntOf(d.tid), IntOf(d.tid), ExecComm(d.filename)),
                 !.cu = c.cu + 1]

\* the sched_process_exec branch
ExecUpdate(c, d) ==
  IF d.tid = None \/ d.filename = None THEN c
  ELSE IF IntRaises(d.tid) THEN [c EXCEPT !.raised = TRUE]
  ELSE LET tid == IntOf(d.tid)
           comm == ExecComm(d.filename)
           old_pid == IF tid \in DOMAIN c.tc THEN c.tc[tid].pid ELSE tid
       IN [c EXCEPT !.tc = CtxPut(c.tc, tid, old_pid, comm), !.cu = c.cu + 1]

\* _update_context on c = [tc, cc, cu, raised]; its except clause keeps what
\* was written before the exception
UpdateContext(c, event_type, d) ==
  IF event_type = "sched_process_fork" THEN
    RegisterFork(RegisterFork(c, d.child_tid, d.child_pid, d.child_comm),
                 d.parent_tid, d.parent_pid, d.parent_comm)
  ELSE IF event_type = "sched_switch" THEN
    RegisterIfNew(SwitchNext(SwitchCpu(c, d), d), d.prev_tid, d.prev_comm)
  ELSE IF event_type \in {"sched_waking", "sched_wakeup"} THEN
    RegisterIfNew(c, d.tid, d.comm)
  ELSE IF event_type \in SchedStatTypes THEN
    RegisterIfNew(c, d.tid, d.comm)
  ELSE IF event_type = "sched_process_exec" THEN
    ExecUpdate(c, d)
  ELSE c

ResolveTidNoCpu(d, cpu_id, cc) ==
  LET own == FirstOf(d.tid, d.vtid, d.child_tid)
  IN IF own # None THEN own ELSE FirstOf(d.next_tid, d.prev_tid, None)

\* a resolver that falls back to the thread of any cpu when the event's own
\* cpu has none
ResolveTidAnyCpu(d, cpu_id, cc) ==
  LET own == FirstOf(d.tid, d.vtid, d.child_tid)
      sched == IF own # None THEN own ELSE FirstOf(d.next_tid, d.prev_tid, None)
  IN IF sched = None /\ cc # <<>>
     THEN Some(IntV(cc[IF cpu_id \in DOMAIN cc THEN cpu_id ELSE CHOOSE k \in DOMAIN cc : TRUE]))
     ELSE sched

\* the tid an event is given: its own field, a scheduling field, then the
\* thread recorded for its cpu
ResolveTid(d, cpu_id, cc) ==
  LET own == FirstOf(d.tid, d.vtid, d.child_tid)
      sched == IF own # None THEN own ELSE FirstOf(d.next_tid, d.prev_tid, None)
  IN IF sched = None /\ cpu_id >= 0 /\ cpu_id \in DOMAIN cc THEN Some(IntV(cc[cpu_id]))
     ELSE sched

\* _parse_line after the regex matched, on the context c updated by
\* _update_context: [ok, event]; ok is FALSE when the try block raised
EnrichEvent(c, ts, event_type, d) ==
  IF IntRaises(d.cpu_id) THEN [ok |-> FALSE, event |-> None]
  ELSE
    LET cpu_id == IF d.cpu_id = None THEN -1 ELSE IntOf(d.cpu_id)
        pid0 == FirstOf(d.pid, d.vpid, d.parent_pid)
        comm0 == FirstOf(d.procname, d.comm, d.child_comm)
        tid == ResolveTid(d, cpu_id, c.cc)
        known == tid # None /\ IsInt(Get(tid)) /\ IntOf(tid) \in DOMAIN c.tc
        pid == IF known /\ pid0 = None THEN Some(IntV(c.tc[IntOf(tid)].pid)) ELSE pid0
        comm == IF known /\ comm0 = None THEN Some(StrV(c.tc[IntOf(tid)].comm)) ELSE comm0
    IN IF IntRaises(pid) \/ IntRaises(tid) THEN [ok |-> FALSE, event |-> None]
       ELSE [ok |-> TRUE,
             event |-> Some([timestamp |-> ts,
                             cpu_id |-> cpu_id,
                             event_type |-> event_type,
                             process_name |-> IF comm = None THEN <<"u", "n", "k", "n", "o", "w", "n">>
                                              ELSE CleanComm(comm),
                             pid |-> IF pid = None THEN -1 ELSE IntOf(pid),
                             tid |-> IF tid = None THEN -1 ELSE IntOf(tid),
                             event_data |-> d])]

ParserContext ==
  [tc |-> tid_context, cc |-> cpu_context, cu |-> context_updates, raised |-> FALSE]

\* history: what the last sched_switch on each cpu named, whether its next_tid
\* was new to the thread context, and whether that entry was rewritten since
TrackSwitch(line, c) ==
  LET d == line.event_data
      kept == [k \in DOMAIN sw |->
                 [sw[k] EXCEPT !.rewritten =
                    sw[k].rewritten \/ c.tc[sw[k].next_tid] # tid_context'[sw[k].next_tid]]]
  IN IF /\ line.shape = "event" /\ line.event_type = "sched_switch"
        /\ d.cpu_id # None /\ ~IntRaises(d.cpu_id)
     THEN IF d.next_tid # None /\ ~IntRaises(d.next_tid) /\ d.next_comm # None
          THEN [k \in DOMAIN sw \cup {IntOf(d.cpu_id)} |->
                  IF k = IntOf(d.cpu_id)
                  THEN [next_tid |-> IntOf(d.next_tid),
                        next_comm |-> CleanComm(d.next_comm),
                        fresh |-> IntOf(d.next_tid) \notin DOMAIN tid_context,
                        rewritten |-> FALSE]
                  ELSE kept[k]]
          ELSE [k \in DOMAIN sw \ {IntOf(d.cpu_id)} |-> kept[k]]
     ELSE kept

\* an error count that counts a rejected line twice
CountErrorTwice(n) == n + 2

\* self.parse_errors += 1
CountError(n) == n + 1

\* one iteration of parse(): total_lines, _parse_line, len(self.events)
ParseStep(line) ==
  /\ total_lines' = total_lines + 1
  /\ IF line.shape = "blank" THEN
       /\ emitted' = None
       /\ UNCHANGED <<tid_context, cpu_context, context_updates, parse_errors, nparsed>>
     ELSE IF line.shape = "nomatch" THEN
       /\ parse_errors' = CountError(parse_errors)
       /\ emitted' = None
       /\ UNCHANGED <<tid_context, cpu_context, context_updates, nparsed>>
     ELSE
       LET c == UpdateContext(ParserContext, line.event_type, line.event_data)
           r == EnrichEvent(c, line.timestamp, line.event_type, line.event_data)
       IN /\ tid_context' = c.tc
          /\ cpu_context' = c.cc
          /\ context_updates' = c.cu
          /\ emitted' = r.event
          /\ parse_errors' = IF r.ok THEN parse_errors ELSE CountError(parse_errors)
          /\ nparsed' = IF r.ok THEN nparsed + 1 ELSE nparsed
  /\ sw' = TrackSwitch(line, ParserContext)
  /\ last_line' = Some(line)

\* one iteration of parse() of a parser run on its own
ParseLine(line) == ParseStep(line) /\ UNCHANGED <<bvars, xvars, rvars, tvars, lvars>>

-----------------------------------------------------------------------------
(* SpecParser: parse() over lines of two cpus and two threads *)

MaxLines == 3

Worker == <<"w", "o", "r", "k", "e", "r">>
Shell == <<"s", "h">>

ParserTids == {7, 8}
ParserCpus == {0, 1}

EventLine(event_type, d) ==
  [shape |-> "event", timestamp |-> 0, event_type |-> event_type, event_data |-> d]

SwitchLines ==
  {EventLine("sched_switch",
             [NoFields EXCEPT !.cpu_id = Some(IntV(c)),
                              !.prev_tid = Some(IntV(15 - n)), !.prev_comm = Some(StrV(Shell)),
                              !.next_tid = Some(IntV(n)), !.next_comm = Some(StrV(m))]) :
     c \in ParserCpus, n \in ParserTids, m \in {Worker, Shell}}
  \cup
  {EventLine("sched_switch",
             [NoFields EXCEPT !.cpu_id = Some(IntV(0)),
                              !.prev_tid = Some(IntV(7)), !.prev_comm = Some(StrV(Shell))])}

ForkLines ==
  {EventLine("sched_process_fork",
             [NoFields EXCEPT !.cpu_id = Some(IntV(0)),
                              !.parent_tid = Some(IntV(t)), !.parent_pid = Some(IntV(7)),
                              !.parent_comm = Some(StrV(Shell)),
                              !.child_tid = Some(IntV(9)), !.child_pid = Some(IntV(9)),
                              !.child_comm = Some(StrV(Shell))]) :
     t \in ParserTids}

ExecLines ==
  {EventLine("sched_process_exec",
             [NoFields EXCEPT !.cpu_id = Some(IntV(0)), !.tid = Some(IntV(n)),
                              !.filename = Some(StrV(<<"/", "b", "i", "n", "/">> \o Worker))]) :
     n \in ParserTids}

WakeLines ==
  {EventLine(t, [NoFields EXCEPT !.cpu_id = Some(IntV(1)), !.tid = Some(IntV(8)),
                                 !.comm = Some(StrV(Worker))]) :
     t \in {"sched_wakeup", "sched_stat_runtime"}}
  \cup
  {EventLine("sched_wakeup", [NoFields EXCEPT !.cpu_id = Some(StrV(<<"x">>)), !.tid = Some(IntV(8)),
                                              !.comm = Some(StrV(Worker))])}

SyscallLines ==
  {EventLine("syscall_entry_read", [NoFields EXCEPT !.cpu_id = Some(IntV(c)), !.fd = Some(IntV(3))]) :
     c \in ParserCpus}
  \cup
  {EventLine("syscall_entry_read", [NoFields EXCEPT !.fd = Some(IntV(3))]),
   EventLine("syscall_entry_read", [NoFields EXCEPT !.cpu_id = Some(StrV(<<"x">>)),
                                                    !.fd = Some(IntV(3))]),
   EventLine("syscall_exit_read", [NoFields EXCEPT !.cpu_id = Some(IntV(0)),
                                                   !.vtid = Some(IntV(8)), !.vpid = Some(IntV(7)),
                                                   !.procname = Some(StrV(Shell))])}

OtherLines == {[shape |-> "blank"], [shape |-> "nomatch"]}

ParserLines == SwitchLines \cup ForkLines \cup ExecLines \cup WakeLines \cup SyscallLines
                 \cup OtherLines

ParserFeed ==
  /\ total_lines < MaxLines
  /\ \E line \in ParserLines : ParseLine(line)

InitP == InitBuilder(<<>>) /\ InitParser /\ InitExtractor /\ InitRun /\ InitStamp /\ InitLsof

NextP == ParserFeed

SpecParser == InitP /\ [][NextP]_vars

-----------------------------------------------------------------------------
(* EntityExtractor.  Its events are the parser's KernelEvent records; a     *)
(* dict is a function, the order of its keys is not kept.                   *)

\* d[k] = v
DictPut(d, k, v) == [x \in DOMAIN d \cup {k} |-> IF x = k THEN v ELSE d[x]]

\* event_type tests of the extractor ('... in event.event_type')
IsFork(event_type) == event_type = "sched_process_fork"
IsOpenEntry(event_type) ==
  event_type \in {"syscall_entry_open", "syscall_entry_openat", "syscall_entry_openat2"}
IsOpenExit(event_type) ==
  event_type \in {"syscall_exit_open", "syscall_exit_openat", "syscall_exit_openat2"}
IsReadWriteEntry(event_type) ==
  event_type \in {"syscall_entry_read", "syscall_entry_write", "syscall_entry_pread64",
                  "syscall_entry_pwrite64", "syscall_entry_readv", "syscall_entry_writev"}
IsSocketEntry(event_type) == event_type = "syscall_entry_socket"

\* the body of the loop of _extract_processes_and_threads
ProcessThreadStep(e, event) ==
  LET p1 == IF event.pid > 0 /\ event.pid \notin DOMAIN e.processes
            THEN DictPut(e.processes, event.pid,
                         [pid |-> event.pid, name |-> event.process_name,
                          start_time |-> event.timestamp, parent_pid |-> None,
                          end_time |-> None, thread_count |-> 0])
            ELSE e.processes
      p2 == IF event.pid \in DOMAIN p1
            THEN [p1 EXCEPT ![event.pid].end_time = Some(event.timestamp)]
            ELSE p1
      new_thread == event.tid > 0 /\ event.tid \notin DOMAIN e.threads
      t1 == IF new_thread
            THEN DictPut(e.threads, event.tid,
                         [tid |-> event.tid, pid |-> event.pid, name |-> event.process_name,
                          start_time |-> event.timestamp, end_time |-> None])
            ELSE e.threads
      t2 == IF event.tid \in DOMAIN t1
            THEN [t1 EXCEPT ![event.tid].end_time = Some(event.timestamp)]
            ELSE t1
      ptt == IF new_thread
             THEN DictPut(e.pid_to_threads, event.pid,
                          (IF event.pid \in DOMAIN e.pid_to_threads
                           THEN e.pid_to_threads[event.pid] ELSE {}) \cup {event.tid})
             ELSE e.pid_to_threads
      d == event.event_data
      parent_pid == IF d.parent_pid # None THEN Get(d.parent_pid)[2] ELSE event.pid
      child_ok == /\ IsFork(event.event_type)
                  /\ d.child_pid # None /\ Get(d.child_pid)[2] # 0
                  /\ Get(d.child_pid)[2] \in DOMAIN p2
      p3 == IF child_ok
            THEN [p2 EXCEPT ![Get(d.child_pid)[2]].parent_pid = Some(parent_pid)]
            ELSE p2
  IN [e EXCEPT !.processes = p3, !.threads = t2, !.pid_to_threads = ptt]

\* the body of the loop of _extract_cpus
CpuStep(e, event) ==
  IF event.cpu_id >= 0
  THEN [e EXCEPT !.cpus =
          DictPut(e.cpus, event.cpu_id,
                  [cpu_id |-> event.cpu_id,
                   event_count |-> (IF event.cpu_id \in DOMAIN e.cpus
                                    THEN e.cpus[event.cpu_id].event_count ELSE 0) + 1])]
  ELSE e

\* `if fd_key in self.fd_to_file`
FdKnownToExtractor(e, fd_key) == fd_key \in DOMAIN e.fd_to_file

\* the body of the loop of _extract_files
FileStep(e, event) ==
  LET d == event.event_data
      named == IF d.filename # None THEN d.filename ELSE d.pathname
  IN IF IsOpenEntry(event.event_type) THEN
       IF named # None /\ ~IsInt(Get(named)) /\ Get(named)[2] # <<>> THEN
         LET filename == StripQuotes(Get(named)[2])
             old == IF filename \in DOMAIN e.files THEN e.files[filename]
                    ELSE [path |-> filename, file_type |-> "file",
                          first_access |-> Some(event.timestamp), last_access |-> None,
                          access_count |-> 0]
         IN [e EXCEPT !.files =
               DictPut(e.files, filename,
                       [old EXCEPT !.last_access = Some(event.timestamp),
                                   !.access_count = old.access_count + 1])]
       ELSE e
     ELSE IF IsOpenExit(event.event_type) THEN e
     ELSE IF IsReadWriteEntry(event.event_type) THEN
       IF d.fd # None /\ Get(d.fd)[2] >= 0 THEN
         LET fd_key == <<event.pid, Get(d.fd)[2]>>
         IN IF FdKnownToExtractor(e, fd_key) THEN
              LET filename == e.fd_to_file[fd_key]
              IN IF filename \in DOMAIN e.files
                 THEN [e EXCEPT !.files[filename].last_access = Some(event.timestamp),
                                !.files[filename].access_count = e.files[filename].access_count + 1]
                 ELSE e
            ELSE e
       ELSE e
     ELSE e

\* the body of the loop of _extract_sockets
SocketStep(e, event) ==
  IF IsSocketEntry(event.event_type) THEN
    LET socket_key == SocketId(event.pid, event.timestamp)
    IN IF socket_key \notin DOMAIN e.sockets
       THEN [e EXCEPT !.sockets =
               DictPut(e.sockets, socket_key,
                       [socket_id |-> socket_key, address |-> "0.0.0.0", port |-> 0,
                        protocol |-> "0", family |-> "unknown", socket_type |-> "unknown",
                        first_access |-> Some(event.timestamp)])]
       ELSE e
  ELSE e

\* for event in self.events: <one of the step operators>
RECURSIVE OverEvents(_, _, _)
OverEvents(e, events, pass) ==
  IF events = <<>> THEN e
  ELSE OverEvents(
         CASE pass = "procs" -> ProcessThreadStep(e, Head(events))
           [] pass = "cpus" -> CpuStep(e, Head(events))
           [] pass = "files" -> FileStep(e, Head(events))
           [] OTHER -> SocketStep(e, Head(events)),
         Tail(events), pass)

\* _link_threads_to_processes
LinkThreadsToProcesses(e) ==
  [e EXCEPT !.processes =
     [pid \in DOMAIN e.processes |->
        IF pid \in DOMAIN e.pid_to_threads
        THEN [e.processes[pid] EXCEPT !.thread_count = Cardinality(e.pid_to_threads[pid])]
        ELSE e.processes[pid]]]

\* extract_all
ExtractAll ==
  /\ ~extracted
  /\ entities' =
       LinkThreadsToProcesses(
         OverEvents(OverEvents(OverEvents(OverEvents(entities, x_events, "procs"),
                                          x_events, "cpus"),
                               x_events, "files"),
                    x_events, "sockets"))
  /\ extracted' = TRUE
  /\ UNCHANGED <<x_events, bvars, pvars, rvars, tvars, lvars>>

-----------------------------------------------------------------------------
(* SpecEntities: an extractor constructed over a list of events of two      *)
(* threads and two processes (identities as the parser emits them, the i-th *)
(* event stamped i), then extract_all.                                      *)

MaxExtracted == 3

XEvent(ts, event_type, pid, tid, d) ==
  [timestamp |-> ts, cpu_id |-> 0, event_type |-> event_type,
   process_name |-> <<"s", "h">>, pid |-> pid, tid |-> tid, event_data |-> d]

XEvents(ts) ==
  {XEvent(ts, "sched_switch", id[1], id[2], NoFields) :
     id \in {<<8, 8>>, <<7, 8>>, <<7, 7>>, <<0, 0>>}}
  \cup
  {XEvent(ts, "syscall_entry_openat", 7, 7,
          [NoFields EXCEPT !.filename = Some(StrV(<<"/", "t", "m", "p", "/", "a">>))]),
   XEvent(ts, "syscall_exit_openat", 7, 7, [NoFields EXCEPT !.ret = Some(IntV(5))]),
   XEvent(ts, "syscall_entry_read", 7, 7, [NoFields EXCEPT !.fd = Some(IntV(5))]),
   XEvent(ts, "syscall_entry_socket", 7, 7, NoFields),
   XEvent(ts, "sched_process_fork", 7, 7,
          [NoFields EXCEPT !.parent_pid = Some(IntV(7)), !.child_pid = Some(IntV(8))])}

\* the events handed to EntityExtractor.__init__, one more at a time
GiveEvent ==
  /\ ~extracted
  /\ Len(x_events) < MaxExtracted
  /\ \E event \in XEvents(Len(x_events) + 1) : x_events' = Append(x_events, event)
  /\ UNCHANGED <<entities, extracted, bvars, pvars, rvars, tvars, lvars>>

InitEntities == InitBuilder(<<>>) /\ InitParser /\ InitExtractor /\ InitRun /\ InitStamp /\ InitLsof

NextEntities == GiveEvent \/ ExtractAll

SpecEntities == InitEntities /\ [][NextEntities]_vars

-----------------------------------------------------------------------------
(* SpecPipeline: the pipeline run twice in one interpreter on the same     *)
(* lines, rule configuration and descriptor snapshot: parse, extract_all   *)
(* over the parsed events, build_sequences over the parsed events.  Run 1  *)
(* reads any lines; run 2 reads the lines of run 1.  GROUPING_RULES is a   *)
(* class attribute: the second builder starts from the dict the first left. *)

MaxPipeline == 3

PipelineLine(ts, event_type, d) ==
  [shape |-> "event", timestamp |-> ts, event_type |-> event_type,
   event_data |-> [d EXCEPT !.cpu_id = Some(IntV(0)), !.vtid = Some(IntV(1)),
                            !.vpid = Some(IntV(ThePid)), !.procname = Some(StrV(Shell))]]

\* the lines a file can hold at position ts (the position is the time stamp)
PipelineLines(ts) ==
  {PipelineLine(ts, "syscall_entry_read", [NoFields EXCEPT !.fd = Some(IntV(TheFd))]),
   PipelineLine(ts, "syscall_exit_read", [NoFields EXCEPT !.ret = Some(IntV(10))]),
   PipelineLine(ts, "syscall_entry_openat", [NoFields EXCEPT !.filename = Some(StrV(TmpA))]),
   PipelineLine(ts, "syscall_exit_openat", [NoFields EXCEPT !.ret = Some(IntV(TheFd))]),
   PipelineLine(ts, "sched_switch", NoFields),
   [shape |-> "blank"]}

\* event_type as _pair_syscalls reads it: 'syscall_entry' / 'syscall_exit' in
\* event_type, and the name left by replace('syscall_entry_', '')
SyscallKind(event_type) ==
  IF event_type \in {"syscall_entry_read", "syscall_entry_openat"} THEN "syscall_entry"
  ELSE IF event_type \in {"syscall_exit_read", "syscall_exit_openat"} THEN "syscall_exit"
  ELSE event_type

SyscallName(event_type) ==
  IF event_type \in {"syscall_entry_read", "syscall_exit_read"} THEN "read"
  ELSE IF event_type \in {"syscall_entry_openat", "syscall_exit_openat"} THEN "openat"
  ELSE ""

\* event_data.get(field) of a parsed event: the value without its type tag
FieldValue(v) == IF v = None THEN None ELSE Some(Get(v)[2])

\* self.events[idx - 1] of the builder, event being what the parser appended
AsBuilderEvent(idx, event) ==
  KernelEvent(idx, SyscallKind(event.event_type), SyscallName(event.event_type),
              event.tid, event.pid, event.cpu_id, event.timestamp,
              EventData(FieldValue(event.event_data.fd), FieldValue(event.event_data.filename),
                        FieldValue(event.event_data.pathname), FieldValue(event.event_data.ret)))

\* the line the current run reads next
NextLines ==
  IF run = 1
  THEN IF total_lines < MaxPipeline THEN PipelineLines(total_lines + 1) ELSE {}
  ELSE IF total_lines < Len(input.lines) THEN {input.lines[total_lines + 1]} ELSE {}

\* one iteration of parse(): the event, if any, is appended to the list that
\* the extractor and the builder are constructed with
ReadLine ==
  /\ ~extracted
  /\ \E line \in NextLines :
       /\ ParseStep(line)
       /\ x_events' = IF emitted' # None THEN Append(x_events, Get(emitted')) ELSE x_events
       /\ input' = IF run = 1 THEN [input EXCEPT !.lines = Append(input.lines, line)] ELSE input
  /\ UNCHANGED <<bvars, entities, extracted, run, first_run, tvars, lvars>>

\* parse() has returned: EntityExtractor(events).extract_all()
Extract ==
  /\ NextLines = {} \/ run = 1
  /\ ExtractAll

\* one iteration of the pairing loop of build_sequences over the parsed events
PairEvent ==
  /\ extracted
  /\ nevents < Len(x_events)
  /\ ProcessEvent(AsBuilderEvent(nevents + 1, x_events[nevents + 1]))

\* the rest of build_sequences
Build ==
  /\ extracted
  /\ nevents = Len(x_events)
  /\ BuildSequences

\* the second run: a new parser, extractor and builder, constructed with the
\* arguments of the first; the class attribute GROUPING_RULES is not reset
Restart ==
  /\ run = 1
  /\ phase = "built"
  /\ run' = 2
  /\ first_run' = Some([events |-> x_events, entities |-> entities, sequences |-> sequences])
  /\ grouping_rules' = LoadSchemaRules(grouping_rules, schema_rules)
  /\ nevents' = 0
  /\ pending' = <<>>
  /\ pairs' = <<>>
  /\ origin' = <<>>
  /\ fd_map' = SeedFdMap(input.snapshot)
  /\ fd_mappings_created' = 0
  /\ fd_mappings_resolved' = 0
  /\ fd_mappings_cleaned' = 0
  /\ fd_mappings_from_lsof' = Cardinality(DOMAIN input.snapshot)
  /\ sequences' = <<>>
  /\ sequence_counter' = 0
  /\ phase' = "pairing"
  /\ cur' = NoEvent
  /\ dropped' = {}
  /\ tid_context' = <<>>
  /\ cpu_context' = <<>>
  /\ context_updates' = 0
  /\ parse_errors' = 0
  /\ total_lines' = 0
  /\ emitted' = None
  /\ nparsed' = 0
  /\ sw' = <<>>
  /\ last_line' = None
  /\ x_events' = <<>>
  /\ entities' = NoEntities
  /\ extracted' = FALSE
  /\ UNCHANGED <<schema_rules, input, tvars, lvars>>

PipelineConfigs == {<<>>} \cup SchemaConfigs

InitPipeline ==
  /\ \E snapshot \in Snapshots : \E rules_data \in PipelineConfigs :
       /\ InitBuilderWith(snapshot, rules_data)
       /\ input = [lines |-> <<>>, snapshot |-> snapshot]
  /\ InitParser
  /\ InitExtractor
  /\ run = 1
  /\ first_run = None
  /\ InitStamp /\ InitLsof

NextPipeline == ReadLine \/ Extract \/ PairEvent \/ Build \/ Restart

SpecPipeline == InitPipeline /\ [][NextPipeline]_vars

-----------------------------------------------------------------------------
(* _parse_timestamp.  The text is a sequence of characters; a float is kept *)
(* exactly, as <<n, k>> for n / 10^k (binary rounding is not modelled).     *)

DigitChars == <<"0", "1", "2", "3", "4", "5", "6", "7", "8", "9">>

IsDigit(ch) == \E d \in 1..10 : DigitChars[d] = ch

DigitValue(ch) == (CHOOSE d \in 1..10 : DigitChars[d] = ch) - 1

RECURSIVE PowerOfTen(_)
PowerOfTen(k) == IF k = 0 THEN 1 ELSE 10 * PowerOfTen(k - 1)

AllDigits(s) == s # <<>> /\ \A i \in 1..Len(s) : IsDigit(s[i])

\* the number a string of digits spells
RECURSIVE DigitsValue(_)
DigitsValue(s) ==
  IF s = <<>> THEN 0
  ELSE 10 * DigitsValue(SubSeq(s, 1, Len(s) - 1)) + DigitValue(s[Len(s)])

\* str.split(sep): the parts between the separators
RECURSIVE Split(_, _)
Split(s, sep) ==
  IF \A i \in 1..Len(s) : s[i] # sep THEN <<s>>
  ELSE LET i == CHOOSE j \in 1..Len(s) : s[j] = sep /\ \A m \in 1..(j - 1) : s[m] # sep
       IN <<SubSeq(s, 1, i - 1)>> \o Split(SubSeq(s, i + 1, Len(s)), sep)

\* int(text) of an unsigned decimal text: None when it raises ValueError
IntText(s) == IF AllDigits(s) THEN Some(DigitsValue(s)) ELSE None

\* float(text) of an unsigned decimal text `digits`, `digits.`, `.digits`
\* or `digits.digits`: None when it raises ValueError
FloatText(s) ==
  LET ps == Split(s, ".")
  IN IF Len(ps) = 1 THEN
       IF AllDigits(ps[1]) THEN Some(<<DigitsValue(ps[1]), 0>>) ELSE None
     ELSE IF Len(ps) = 2 /\ (ps[1] # <<>> \/ ps[2] # <<>>)
                         /\ (ps[1] = <<>> \/ AllDigits(ps[1]))
                         /\ (ps[2] = <<>> \/ AllDigits(ps[2])) THEN
       Some(<<DigitsValue(ps[1]) * PowerOfTen(Len(ps[2])) + DigitsValue(ps[2]), Len(ps[2])>>)
     ELSE None

\* a sum that takes the minutes for seconds
SecondsLost(hours, minutes, seconds) ==
  <<(hours * 3600 + minutes) * PowerOfTen(seconds[2]) + seconds[1], seconds[2]>>

\* hours * 3600 + minutes * 60 + seconds
SecondsSinceMidnight(hours, minutes, seconds) ==
  <<(hours * 3600 + minutes * 60) * PowerOfTen(seconds[2]) + seconds[1], seconds[2]>>

\* _parse_timestamp: [ok, value]; ok is FALSE when it raises
ParseTimestamp(timestamp_str_) ==
  LET parts == Split(timestamp_str_, ":")
  IN IF Len(parts) < 3 THEN [ok |-> FALSE, value |-> <<0, 0>>]
     ELSE LET hours == IntText(parts[1])
              minutes == IntText(parts[2])
              seconds == FloatText(parts[3])
          IN IF hours = None \/ minutes = None \/ seconds = None
             THEN [ok |-> FALSE, value |-> <<0, 0>>]
             ELSE [ok |-> TRUE,
                   value |-> SecondsSinceMidnight(Get(hours), Get(minutes), Get(seconds))]

-----------------------------------------------------------------------------
(* SpecTimestamp: _parse_timestamp on the timestamp group of lines that     *)
(* match TRACE_LINE_PATTERN, \d{2}:\d{2}:\d{2}\.\d+                          *)

MaxFraction == 2

StampDigits == {"0", "5", "9"}

DigitTexts(n) == [1..n -> StampDigits]

\* the texts the timestamp group of the pattern can capture
TimestampTexts ==
  {hh \o <<":">> \o mm \o <<":">> \o ss \o <<".">> \o fraction :
     hh \in DigitTexts(2), mm \in DigitTexts(2), ss \in DigitTexts(2),
     fraction \in UNION {DigitTexts(n) : n \in 1..MaxFraction}}

\* timestamp = self._parse_timestamp(timestamp_str), for the line at hand
StampLine ==
  /\ timestamp_str # None
  /\ timestamp = None
  /\ timestamp' = Some(ParseTimestamp(Get(timestamp_str)))
  /\ UNCHANGED <<timestamp_str, bvars, pvars, xvars, rvars, lvars>>

\* a line whose timestamp group has been captured and not yet converted
InitTimestamp ==
  /\ InitBuilder(<<>>) /\ InitParser /\ InitExtractor /\ InitRun
  /\ \E text \in TimestampTexts : timestamp_str = Some(text)
  /\ timestamp = None
  /\ InitLsof

NextTimestamp == StampLine

SpecTimestamp == InitTimestamp /\ [][NextTimestamp]_vars

-----------------------------------------------------------------------------
(* SpecBuilders: a builder constructed with or without a schema             *)
(* configuration and used, then a second builder constructed in the same    *)
(* interpreter without one.  self.GROUPING_RULES[operation] = ... writes    *)
(* the dict found through the class, which every instance shares.           *)

\* EventSequenceBuilder(events, schema_config) for the second builder
NewBuilder(rules_data) ==
  /\ run = 1
  /\ run' = 2
  /\ grouping_rules' = LoadSchemaRules(grouping_rules, rules_data)
  /\ schema_rules' = rules_data
  /\ nevents' = 0
  /\ pending' = <<>>
  /\ pairs' = <<>>
  /\ origin' = <<>>
  /\ fd_map' = <<>>
  /\ fd_mappings_created' = 0
  /\ fd_mappings_resolved' = 0
  /\ fd_mappings_cleaned' = 0
  /\ fd_mappings_from_lsof' = 0
  /\ sequences' = <<>>
  /\ sequence_counter' = 0
  /\ phase' = "pairing"
  /\ cur' = NoEvent
  /\ dropped' = {}
  /\ UNCHANGED <<pvars, xvars, input, first_run, tvars, lvars>>

NewDefaultBuilder == NewBuilder(<<>>)

InitBuilders ==
  /\ \E rules_data \in PipelineConfigs : InitBuilderWith(<<>>, rules_data)
  /\ InitParser /\ InitExtractor /\ InitRun /\ InitStamp /\ InitLsof

NextBuilders == ConfigFeed \/ BuildSequences \/ NewDefaultBuilder

SpecBuilders == InitBuilders /\ [][NextBuilders]_vars

-----------------------------------------------------------------------------
(* _parse_lsof_output: one iteration of `for line in raw_output.split('\n')`, *)
(* then _load_initial_fd_state's copy of the result into fd_map.              *)

MaxLsof == 4

\* line.startswith(prefix)
StartsWith(s, prefix) == Len(s) >= Len(prefix) /\ SubSeq(s, 1, Len(prefix)) = prefix

\* line[1:]
Rest(line) == SubSeq(line, 2, Len(line))

\* int(text) under `except ValueError`: None where it raises
LsofInt(text) == IF AllDigits(text) THEN Some(DigitsValue(text)) ELSE None

TypePrefix == <<"t", "y", "p", "e", "=">>

\* lines of `lsof -F` output: process lines, descriptor lines (numeric, padded,
\* and the non-numeric cwd), name lines (paths, a type= name, an empty name)
\* and a blank line
LsofLines ==
  {<<"p", "5">>, <<"p", "7">>, <<"p", "x">>,
   <<"f", "3">>, <<" ", "f", "4", " ">>, <<"f", "c", "w", "d">>,
   <<"n", "/", "a">>, <<"n", "/", "b">>, <<"n">>,
   <<"n", "t", "y", "p", "e", "=", "S">>,
   <<>>}

\* the body of the loop on one line: [pid, fd, map]
LsofStep(st, raw) ==
  LET line == Strip(raw, " ")
  IN IF line = <<>> THEN st
     ELSE IF StartsWith(line, <<"p">>) THEN [st EXCEPT !.pid = LsofInt(Rest(line))]
     ELSE IF StartsWith(line, <<"f">>) THEN [st EXCEPT !.fd = LsofInt(Rest(line))]
     ELSE IF StartsWith(line, <<"n">>) /\ st.pid # None /\ st.fd # None
          THEN LET file_path == Rest(line)
               IN IF file_path # <<>> /\ ~StartsWith(file_path, TypePrefix)
                  THEN [st EXCEPT !.map = DictPut(st.map, FdKey(Get(st.pid), Get(st.fd)), file_path)]
                  ELSE st
     ELSE st

ReadLsofLine ==
  /\ ~loaded
  /\ nlsof < MaxLsof
  /\ \E raw \in LsofLines :
       LET st == LsofStep([pid |-> current_pid, fd |-> current_fd, map |-> fd_mappings], raw)
           line == Strip(raw, " ")
       IN /\ current_pid' = st.pid
          /\ current_fd' = st.fd
          /\ fd_mappings' = st.map
          /\ block' = IF StartsWith(line, <<"p">>) THEN <<line>> ELSE Append(block, line)
  /\ nlsof' = nlsof + 1
  /\ UNCHANGED <<loaded, bvars, pvars, xvars, rvars, tvars>>

\* _load_initial_fd_state on the parsed mappings: one (0.0, None, name)
\* interval appended per key
LoadInitialFdState ==
  /\ ~loaded
  /\ loaded' = TRUE
  /\ fd_map' = [k \in DOMAIN fd_map \cup DOMAIN fd_mappings |->
                  IF k \in DOMAIN fd_mappings
                  THEN Append(FdList(fd_map, k), Interval(0, None, fd_mappings[k]))
                  ELSE fd_map[k]]
  /\ fd_mappings_from_lsof' = fd_mappings_from_lsof + Cardinality(DOMAIN fd_mappings)
  /\ UNCHANGED <<grouping_rules, schema_rules, nevents, pending, pairs, origin,
                 fd_mappings_created, fd_mappings_resolved, fd_mappings_cleaned,
                 sequences, sequence_counter, phase, cur, dropped,
                 fd_mappings, current_pid, current_fd, nlsof, block,
                 pvars, xvars, rvars, tvars>>

InitSnapshot == InitBuilder(<<>>) /\ InitParser /\ InitExtractor /\ InitRun /\ InitStamp /\ InitLsof

NextSnapshot == ReadLsofLine \/ LoadInitialFdState

SpecSnapshot == InitSnapshot /\ [][NextSnapshot]_vars

-----------------------------------------------------------------------------
(* Claims on the syscall pairer (Spec) *)

IsExit(c) == c # NoEvent /\ Get(c).kind = "syscall_exit"

PairBuiltFrom(i) ==
  LET o == origin[i]
  IN /\ o.entry.kind = "syscall_entry"
     /\ o.exit.kind = "syscall_exit"
     /\ o.entry.idx < o.exit.idx
     /\ o.entry.tid = o.exit.tid
     /\ o.entry.name = o.exit.name
     /\ pairs[i].tid = o.exit.tid
     /\ pairs[i].syscall_name = o.exit.name
     /\ pairs[i].start_time = o.entry.timestamp
     /\ pairs[i].end_time = o.exit.timestamp

\* C2: every paired syscall is built from one entry event and one later exit
\* event of the same tid and syscall name; no entry and no exit event is used
\* by two pairs; an exit event that finds no pending entry for its
\* (tid, syscall name) adds no pair.
C2_OneEntryOneExit ==
  /\ [](/\ Len(origin) = Len(pairs)
        /\ \A i \in 1..Len(pairs) : PairBuiltFrom(i)
        /\ \A i, j \in 1..Len(pairs) :
             i # j => /\ origin[i].entry.idx # origin[j].entry.idx
                      /\ origin[i].exit.idx # origin[j].exit.idx)
  /\ [][(IsExit(cur') /\ PendingKey(Get(cur')) \notin DOMAIN pending) => pairs' = pairs]_vars

\* a pair exists, and the last event handled was an exit that was dropped
C2_Witness ==
  /\ Len(pairs) >= 1
  /\ IsExit(cur)
  /\ \A i \in 1..Len(pairs) : origin[i].exit.idx # Get(cur).idx
  /\ phase = "pairing"

\* C3: every paired syscall has end_time >= start_time (duration >= 0),
\* whatever the order of the timestamps in the input.
C3_EndNotBeforeStart ==
  \A i \in 1..Len(pairs) : pairs[i].end_time >= pairs[i].start_time /\ pairs[i].duration >= 0

IsEntry(c) == c # NoEvent /\ Get(c).kind = "syscall_entry"

\* C13: when two entry events E1, E2 of one (tid, syscall name) occur with no
\* exit of that key between them, E2 replaces E1 as the pending entry, the
\* next exit of the key is paired with the pending entry (the pair's
\* start_time is E2's timestamp), and E1 is in no paired syscall, ever.
C13_SecondEntryWins ==
  /\ [](\A i \in 1..Len(pairs) : origin[i].entry.idx \notin dropped)
  /\ [][(nevents' # nevents /\ IsEntry(cur')) =>
          /\ pending'[PendingKey(Get(cur'))] = Get(cur')
          /\ (PendingKey(Get(cur')) \in DOMAIN pending =>
                pending[PendingKey(Get(cur'))].idx \in dropped')]_vars
  /\ [][(nevents' # nevents /\ IsExit(cur') /\ PendingKey(Get(cur')) \in DOMAIN pending) =>
          /\ Len(pairs') = Len(pairs) + 1
          /\ origin'[Len(pairs')].entry = pending[PendingKey(Get(cur'))]
          /\ pairs'[Len(pairs')].start_time = pending[PendingKey(Get(cur'))].timestamp]_vars

\* E1, E2, exit: E1 was overwritten and the pair starts at E2's other timestamp
C13_Witness ==
  /\ dropped = {1}
  /\ Len(pairs) = 1
  /\ origin[1].entry.idx = 2
  /\ origin[1].exit.idx = 3
  /\ pairs[1].start_time = 1
  /\ phase = "pairing"

\* every counter the builder keeps
BuilderCounters ==
  <<fd_mappings_created, fd_mappings_resolved, fd_mappings_cleaned, fd_mappings_from_lsof,
    sequence_counter>>

\* the step handled an exit event that found no pending entry
ExitMissed ==
  /\ nevents' # nevents
  /\ IsExit(cur')
  /\ PendingKey(Get(cur')) \notin DOMAIN pending

\* C20: every syscall exit event that finds no pending entry for its
\* (tid, syscall name) is counted by the builder, and the output summary
\* reports that pairing-miss counter.
C20_MissesCounted ==
  /\ [][ExitMissed => BuilderCounters' # BuilderCounters]_vars
  /\ [](phase = "built" => \E field \in DOMAIN GenerateSummary(sequences) :
                   field \notin {"total_sequences", "operations", "total_bytes_transferred",
                                 "average_durations_ms"})

-----------------------------------------------------------------------------
(* Claims on the descriptor map (SpecFd) *)

IsOpenOn(p, key) ==
  /\ p.syscall_name \in {"open", "openat", "openat2"}
  /\ p.return_value # None /\ Get(p.return_value) >= 0
  /\ TruthyStr(p.entry_data.filename)
  /\ <<p.pid, Get(p.return_value)>> = key

IsSocketOn(p, key) ==
  /\ p.syscall_name = "socket"
  /\ p.return_value # None /\ Get(p.return_value) >= 0
  /\ <<p.pid, Get(p.return_value)>> = key

IsCloseOn(p, key) ==
  /\ p.syscall_name = "close"
  /\ p.entry_data.fd # None
  /\ p.return_value = Some(0)
  /\ <<p.pid, Get(p.entry_data.fd)>> = key

\* the successful open, socket and close calls on key, in pairing order
OpsOn(key) ==
  SelectSeq(pairs, LAMBDA p : IsOpenOn(p, key) \/ IsSocketOn(p, key) \/ IsCloseOn(p, key))

OpenedName(p) ==
  IF p.syscall_name = "socket" THEN SocketId(p.pid, p.start_time)
  ELSE StripQuotes(Get(p.entry_data.filename))

TheKey == <<ThePid, TheFd>>

NoSnapshot == fd_mappings_from_lsof = 0

\* the key saw exactly: open at t1, close ending at t2, open at t3, t1 < t2 < t3
OpenCloseOpen(key) ==
  LET ops == OpsOn(key)
  IN /\ NoSnapshot
     /\ Len(ops) = 3
     /\ IsOpenOn(ops[1], key) /\ IsCloseOn(ops[2], key) /\ IsOpenOn(ops[3], key)
     /\ ops[1].start_time < ops[2].end_time
     /\ ops[2].end_time < ops[3].start_time

\* C1: after open(name)@t1, close@t2, open(name2)@t3 with t1 < t2 < t3 on a
\* key that had no interval, _resolve_fd gives name on [t1, t2], name2 from
\* t3 on, and nothing strictly between t2 and t3.
C1_DescriptorReuse ==
  OpenCloseOpen(TheKey) =>
    LET ops == OpsOn(TheKey)
        t1 == ops[1].start_time
        t2 == ops[2].end_time
        t3 == ops[3].start_time
    IN \A t \in QueryTimes :
         LET r == ResolveFd(fd_map, ThePid, TheFd, t)
         IN /\ (t1 <= t /\ t <= t2) => r = Some(OpenedName(ops[1]))
            /\ t >= t3 => r = Some(OpenedName(ops[3]))
            /\ (t2 < t /\ t < t3) => r = None

\* the reuse happened with two different names and a gap between t2 and t3
C1_Witness ==
  /\ OpenCloseOpen(TheKey)
  /\ OpenedName(OpsOn(TheKey)[1]) # OpenedName(OpsOn(TheKey)[3])
  /\ OpsOn(TheKey)[2].end_time + 1 < OpsOn(TheKey)[3].start_time
  /\ ResolveFd(fd_map, ThePid, TheFd, OpsOn(TheKey)[2].end_time + 1) = None

\* C9: when the key was seeded from the snapshot and the trace then holds a
\* successful open or socket call returning that fd, entered at t1,
\* _resolve_fd gives the name observed in the trace for every t >= t1.
C9_TraceOverridesSnapshot ==
  LET ops == OpsOn(TheKey)
  IN (/\ TheKey \in DOMAIN fd_map
      /\ ~NoSnapshot
      /\ Len(ops) = 1
      /\ (IsOpenOn(ops[1], TheKey) \/ IsSocketOn(ops[1], TheKey)))
     => \A t \in QueryTimes :
          t >= ops[1].start_time =>
            ResolveFd(fd_map, ThePid, TheFd, t) = Some(OpenedName(ops[1]))

\* C10: every (pid, fd) key has at most one interval whose end is None.
C10_AtMostOneOpenInterval ==
  \A key \in DOMAIN fd_map :
    Cardinality({i \in 1..Len(fd_map[key]) : fd_map[key][i].end = None}) <= 1

\* the step paired a close with return value 0 on key
ClosePaired(key) ==
  /\ Len(pairs') = Len(pairs) + 1
  /\ IsCloseOn(pairs'[Len(pairs')], key)

OpenIntervals(l) == {i \in 1..Len(l) : l[i].end = None}

\* C12: a paired close on fd with return value 0 sets the end of exactly one
\* interval of (pid, fd), the last one in the list whose end is None, to the
\* close's exit time and leaves every other interval unchanged; when the key
\* has no interval with end None, the descriptor map and fd_mappings_cleaned
\* are unchanged.
C12_CloseEndsLastOpen ==
  [][\A key \in {TheKey} : ClosePaired(key) =>
       LET l == FdList(fd_map, key)
           open == OpenIntervals(l)
           close == pairs'[Len(pairs')]
       IN IF open = {}
          THEN fd_map' = fd_map /\ fd_mappings_cleaned' = fd_mappings_cleaned
          ELSE LET last == CHOOSE i \in open : \A j \in open : j <= i
               IN /\ DOMAIN fd_map' = DOMAIN fd_map
                  /\ Len(fd_map'[key]) = Len(l)
                  /\ fd_map'[key][last] = [l[last] EXCEPT !.end = Some(close.end_time)]
                  /\ \A i \in 1..Len(l) : i # last => fd_map'[key][i] = l[i]
                  /\ \A k \in DOMAIN fd_map : k # key => fd_map'[k] = fd_map[k]
                  /\ fd_mappings_cleaned' = fd_mappings_cleaned + 1]_vars

\* a close ended the later of two open intervals and left the earlier open
C12_Witness ==
  /\ IsExit(cur) /\ Get(cur).name = "close"
  /\ TheKey \in DOMAIN fd_map
  /\ Len(fd_map[TheKey]) = 2
  /\ fd_map[TheKey][1].end = None
  /\ fd_map[TheKey][2].end = Some(Get(cur).timestamp)
  /\ fd_mappings_cleaned = 1

\* the calls were paired in the order of their times
Chronological(ops) == \A i \in 1..(Len(ops) - 1) : ops[i].end_time <= ops[i + 1].start_time

\* C27: when the latest successful open, socket or close call on (pid, fd)
\* completed before t is a close, _resolve_fd(pid, fd, t) returns no name,
\* also when two opens occurred without a close between them.
C27_ClosedDoesNotResolve ==
  LET ops == OpsOn(TheKey)
  IN (/\ NoSnapshot
      /\ ops # <<>>
      /\ Chronological(ops)
      /\ IsCloseOn(ops[Len(ops)], TheKey))
     => \A t \in QueryTimes :
          t > ops[Len(ops)].end_time => ResolveFd(fd_map, ThePid, TheFd, t) = None

-----------------------------------------------------------------------------
(* Claims on the sequence grouper (SpecGap, SpecScenario) *)

Built == phase = "built"

\* the indices of the pairs whose projection is in the event_stream of s
Sources(s) == {s.event_stream[k].src : k \in 1..Len(s.event_stream)}

SeqsOf(operation) == {n \in 1..Len(sequences) : sequences[n].operation = operation}

SeqsHolding(i) == {n \in 1..Len(sequences) : i \in Sources(sequences[n])}

Matches(i, rule) == pairs[i].syscall_name \in rule.syscalls

\* the same grouping key: the same value, or the same absence, of every key field
SameKey(i, j, rule) ==
  \A k \in 1..Len(rule.group_by) :
    LET f == rule.group_by[k]
    IN IF f \in {"fd", "socket_fd"} THEN pairs[i].entry_data.fd = pairs[j].entry_data.fd
       ELSE IF f = "tid" THEN pairs[i].tid = pairs[j].tid
       ELSE TRUE

\* i is ordered before j by a stable sort on start_time
Before(i, j) ==
  \/ pairs[i].start_time < pairs[j].start_time
  \/ (pairs[i].start_time = pairs[j].start_time /\ i < j)

\* i and j match the rule, share the key, and no pair of that key lies between
Consecutive(i, j, rule) ==
  /\ Matches(i, rule) /\ Matches(j, rule)
  /\ SameKey(i, j, rule)
  /\ Before(i, j)
  /\ ~\E k \in 1..Len(pairs) :
        Matches(k, rule) /\ SameKey(i, k, rule) /\ Before(i, k) /\ Before(k, j)

InSameSequence(i, j, rule) ==
  \E n \in SeqsOf(rule.operation) : i \in Sources(sequences[n]) /\ j \in Sources(sequences[n])

RuleSet == {grouping_rules[k] : k \in 1..Len(grouping_rules)}

C5_ImmediateOnePerSyscall ==
  Built =>
    \A rule \in RuleSet : rule.immediate =>
      /\ \A n \in SeqsOf(rule.operation) :
           sequences[n].count = 1 /\ Len(sequences[n].event_stream) = 1
      /\ \A i \in 1..Len(pairs) : Matches(i, rule) =>
           Cardinality(SeqsHolding(i) \cap SeqsOf(rule.operation)) = 1
      /\ Cardinality(SeqsOf(rule.operation))
           = Cardinality({i \in 1..Len(pairs) : Matches(i, rule)})

\* two opens of one thread that overlap in time, each its own sequence
C5_Witness ==
  /\ Built
  /\ \E i, j \in 1..Len(pairs) :
       /\ i < j
       /\ pairs[i].syscall_name = "openat" /\ pairs[j].syscall_name = "openat"
       /\ pairs[i].tid = pairs[j].tid
       /\ pairs[j].start_time <= pairs[i].end_time
  /\ Cardinality(SeqsOf("open")) >= 2

\* the trace of the scenario: openat "/tmp/a" -> 5, read(5) -> 10, close(5) -> 0
OpenReadClose ==
  /\ NoSnapshot
  /\ Len(pairs) = 3
  /\ pairs[1].syscall_name = "openat"
  /\ pairs[1].entry_data.filename = Some(TmpA)
  /\ pairs[1].return_value = Some(TheFd)
  /\ pairs[2].syscall_name = "read"
  /\ pairs[2].entry_data.fd = Some(TheFd)
  /\ pairs[2].return_value = Some(10)
  /\ pairs[3].syscall_name = "close"
  /\ pairs[3].entry_data.fd = Some(TheFd)
  /\ pairs[3].return_value = Some(0)
  /\ pairs[1].tid = pairs[2].tid /\ pairs[2].tid = pairs[3].tid

ReadTargetsTmpA(n) ==
  /\ sequences[n].entity_target = Some(TmpA)
  /\ sequences[n].bytes_transferred = 10

\* C7 as stated: the scenario yields exactly one sequence holding the open
\* and exactly one sequence holding the read, the latter with entity_target
\* "/tmp/a" and bytes_transferred 10.
C7_OneReadSequence ==
  (Built /\ OpenReadClose) =>
    /\ Cardinality(SeqsHolding(1)) = 1
    /\ Cardinality(SeqsHolding(2)) = 1
    /\ \A n \in SeqsHolding(2) : ReadTargetsTmpA(n)

\* C7 as amended: the scenario yields exactly one sequence holding the open
\* (operation open) and exactly one sequence of operation read holding the
\* read; the read is also in exactly one sequence of operation socket_recv;
\* both sequences holding the read have entity_target "/tmp/a" and
\* bytes_transferred 10.
C7_OneReadOperationSequence ==
  (Built /\ OpenReadClose) =>
    /\ Cardinality(SeqsHolding(1)) = 1
    /\ SeqsHolding(1) \subseteq SeqsOf("open")
    /\ Cardinality(SeqsHolding(2) \cap SeqsOf("read")) = 1
    /\ Cardinality(SeqsHolding(2) \cap SeqsOf("socket_recv")) = 1
    /\ Cardinality(SeqsHolding(2)) = 2
    /\ \A n \in SeqsHolding(2) : ReadTargetsTmpA(n)

C7_Witness == Built /\ OpenReadClose /\ Len(sequences) = 4

DescriptorKeyed(rule) ==
  \E k \in 1..Len(rule.group_by) : rule.group_by[k] \in {"fd", "socket_fd"}

\* what the descriptor of pair i referred to when the pair started
ReferredTo(i) ==
  ResolveFd(fd_map, pairs[i].pid, Get(pairs[i].entry_data.fd), pairs[i].start_time)

\* C8: all paired syscalls in one sequence of a descriptor-keyed rule refer
\* to the same file or socket: two syscalls whose descriptor resolves, at
\* their own start times, to two different names are never in one sequence.
C8_OneSequenceOneFile ==
  (Built /\ NoSnapshot) =>
    \A n \in 1..Len(sequences) :
      (\E rule \in RuleSet : rule.operation = sequences[n].operation /\ DescriptorKeyed(rule)) =>
        \A i, j \in Sources(sequences[n]) :
          (/\ pairs[i].entry_data.fd # None /\ pairs[j].entry_data.fd # None
           /\ ReferredTo(i) # None /\ ReferredTo(j) # None)
          => ReferredTo(i) = ReferredTo(j)

\* the first paired syscall of sequence n
FirstPair(n) == pairs[sequences[n].event_stream[1].src]

\* the first syscall of the batch has an fd argument and names no file
FdOnly(p) ==
  /\ p.entry_data.fd # None
  /\ p.entry_data.filename = None
  /\ p.entry_data.pathname = None

\* the intervals of (pid, fd) that hold at time t, by position in the list
ValidAt(pid, fd, t) ==
  LET l == FdList(fd_map, <<pid, fd>>)
  IN {i \in 1..Len(l) : l[i].start <= t /\ (l[i].end = None \/ t <= Get(l[i].end))}

\* C17: every paired syscall with an fd argument whose name is in a rule is
\* in a sequence, and every sequence whose first syscall has an fd argument
\* and no filename/pathname has as entity_target the name of the first
\* interval of (pid, fd) that holds at that syscall's start time when there
\* is one, and the placeholder fd:<N> otherwise.
C17_PlaceholderWhenUnresolved ==
  Built =>
    /\ \A i \in 1..Len(pairs) :
         (FdOnly(pairs[i]) /\ \E rule \in RuleSet : Matches(i, rule)) => SeqsHolding(i) # {}
    /\ \A n \in 1..Len(sequences) :
         LET p == FirstPair(n)
             fd == Get(p.entry_data.fd)
             valid == ValidAt(p.pid, fd, p.start_time)
             l == FdList(fd_map, <<p.pid, fd>>)
         IN FdOnly(p) =>
              IF valid = {}
              THEN sequences[n].entity_target = Some(<<"f", "d", ":">> \o IntStr(fd))
              ELSE sequences[n].entity_target = Some(l[CHOOSE i \in valid : \A j \in valid : i <= j].path)

\* a read before the descriptor was opened got the placeholder, a close
\* after the open got the file name
C17_Witness ==
  /\ Built
  /\ NoSnapshot
  /\ \E n, m \in 1..Len(sequences) :
       /\ sequences[n].operation = "read"
       /\ sequences[n].entity_target = Some(<<"f", "d", ":">> \o IntStr(TheFd))
       /\ sequences[m].operation = "close"
       /\ sequences[m].entity_target = Some(TmpA)

\* the sum of the strictly positive return values of the first k events of
\* a sequence's event_stream
RECURSIVE SumPositive(_, _)
SumPositive(stream, k) ==
  IF k = 0 THEN 0
  ELSE LET rv == pairs[stream[k].src].return_value
       IN (IF rv # None /\ Get(rv) > 0 THEN Get(rv) ELSE 0) + SumPositive(stream, k - 1)

\* C18: for every sequence, bytes_transferred is the sum of the strictly
\* positive return values of the paired syscalls of its batch; zero, negative
\* and missing return values add nothing.
C18_BytesArePositiveReturns ==
  Built =>
    \A n \in 1..Len(sequences) :
      sequences[n].bytes_transferred
        = SumPositive(sequences[n].event_stream, Len(sequences[n].event_stream))

\* a sequence of three reads returning 10, 3 and -1 in some order: 13 bytes
C18_Witness ==
  /\ Built
  /\ \E n \in 1..Len(sequences) :
       /\ sequences[n].count = 3
       /\ sequences[n].bytes_transferred = 13
       /\ \E k \in 1..3 : sequences[n].event_stream[k].return_value = Some(-1)

ConfiguredRules == {schema_rules[k] : k \in 1..Len(schema_rules)}

\* C19: a rule supplied through the schema configuration is applied with its
\* own time_gap_ms and its own immediate flag: when it is marked immediate
\* every sequence of its operation holds one syscall, and otherwise two
\* consecutive syscalls of one key are in the same sequence exactly when
\* their gap is <= its time_gap_ms.
C19_ConfiguredRuleApplied ==
  Built =>
    \A rule \in ConfiguredRules :
      IF rule.immediate
      THEN \A n \in SeqsOf(rule.operation) : sequences[n].count = 1
      ELSE \A i, j \in 1..Len(pairs) : Consecutive(i, j, rule) =>
             (InSameSequence(i, j, rule)
                <=> pairs[j].start_time - pairs[i].end_time <= rule.time_gap_ms)

\* the job makes a _resolve_fd call: its first syscall names no file, and it
\* is a socket call that returned a descriptor or has an fd argument
Attempted(job) ==
  LET first == pairs[job.batch[1]]
  IN /\ ~TruthyStr(first.entry_data.filename)
     /\ ~TruthyStr(first.entry_data.pathname)
     /\ IF job.operation = "socket"
        THEN first.return_value # None /\ Get(first.return_value) >= 0
        ELSE first.entry_data.fd # None

\* how many sequences of build_sequences call _resolve_fd
Attempts ==
  LET jobs == AllBatches(pairs, grouping_rules)
  IN Cardinality({k \in 1..Len(jobs) : Attempted(jobs[k])})

\* the counters of the descriptor map, added up
FdCounterSum ==
  fd_mappings_created + fd_mappings_resolved + fd_mappings_cleaned + fd_mappings_from_lsof

\* C21: every descriptor resolution attempt made while building sequences is
\* counted, as resolved or as unresolved: build_sequences raises the
\* descriptor counters of the builder by the number of attempts it made.
C21_AttemptsCounted ==
  [][(phase = "pairing" /\ phase' = "built") => FdCounterSum' - FdCounterSum = Attempts]_vars

\* the rule a sequence was made for
RuleOf(s) == CHOOSE rule \in RuleSet : rule.operation = s.operation

\* C29: within every sequence of a non-immediate rule all paired syscalls
\* carry the same grouping key, they are in the event_stream in
\* non-decreasing start-time order, and each starts at most time_gap_ms
\* after the end of the one before it.
C29_SequenceShape ==
  Built =>
    \A n \in 1..Len(sequences) :
      LET s == sequences[n]
          rule == RuleOf(s)
          es == s.event_stream
      IN ~rule.immediate =>
           /\ \A k, m \in 1..Len(es) : SameKey(es[k].src, es[m].src, rule)
           /\ \A k \in 1..(Len(es) - 1) :
                /\ es[k].timestamp <= es[k + 1].timestamp
                /\ pairs[es[k].src].start_time <= pairs[es[k + 1].src].start_time
                /\ pairs[es[k + 1].src].start_time - pairs[es[k].src].end_time
                     <= rule.time_gap_ms

\* a read sequence of two calls, the later paired one first because it
\* started earlier; a read of another key, paired between them in time
\* order or not, is in another sequence
C29_Witness ==
  /\ Built
  /\ \E n \in SeqsOf("read") :
       LET es == sequences[n].event_stream
       IN /\ Len(es) = 2
          /\ es[1].src > es[2].src
          /\ es[1].timestamp < es[2].timestamp
  /\ Cardinality(SeqsOf("read")) >= 2

-----------------------------------------------------------------------------
(* Claims on the trace parser (SpecParser) *)

\* the event carries none of the fields _parse_line reads an identity from
ContextLess(d) ==
  /\ d.pid = None /\ d.vpid = None /\ d.parent_pid = None
  /\ d.tid = None /\ d.vtid = None /\ d.child_tid = None
  /\ d.next_tid = None /\ d.prev_tid = None
  /\ d.procname = None /\ d.comm = None /\ d.child_comm = None

\* the line just parsed was emitted, carries no identity and lies on a cpu
\* whose last sched_switch named a next_tid and next_comm
FallbackEvent ==
  /\ emitted # None
  /\ Get(emitted).event_type # "sched_switch"
  /\ ContextLess(Get(emitted).event_data)
  /\ Get(emitted).cpu_id \in DOMAIN sw

LastSwitch == sw[Get(emitted).cpu_id]

\* C6 as stated: after a sched_switch on cpu c with next_tid = n and
\* next_comm = m, n unknown to the thread context before, every event on c
\* without identity fields, up to the next sched_switch on c, is emitted with
\* tid = n, pid = n and process_name = m.
C6_FallbackFromSwitch ==
  (FallbackEvent /\ LastSwitch.fresh) =>
     /\ Get(emitted).tid = LastSwitch.next_tid
     /\ Get(emitted).pid = LastSwitch.next_tid
     /\ Get(emitted).process_name = LastSwitch.next_comm

\* C6 amended: such an event is emitted with tid = n and with the pid and
\* process_name the thread context holds for n when the event is parsed; these
\* are n and m when n was unknown before the sched_switch and no later
\* sched_process_fork, sched_process_exec or sched_switch rewrote n's entry.
C6_FallbackFromContext ==
  FallbackEvent =>
     /\ Get(emitted).tid = LastSwitch.next_tid
     /\ Get(emitted).pid = tid_context[LastSwitch.next_tid].pid
     /\ Get(emitted).process_name = tid_context[LastSwitch.next_tid].comm
     /\ (LastSwitch.fresh /\ ~LastSwitch.rewritten) =>
          /\ Get(emitted).pid = LastSwitch.next_tid
          /\ Get(emitted).process_name = LastSwitch.next_comm

\* a context-less read on the cpu of a sched_switch whose thread was new,
\* emitted with that thread as tid and pid and with its comm
C6_Witness ==
  /\ FallbackEvent
  /\ Get(emitted).event_type = "syscall_entry_read"
  /\ LastSwitch.fresh /\ ~LastSwitch.rewritten
  /\ Get(emitted).tid = 7
  /\ Get(emitted).pid = 7
  /\ Get(emitted).process_name = Worker

\* the line just parsed was emitted and is a sched_switch naming both threads
SwitchEmitted ==
  /\ emitted # None
  /\ Get(emitted).event_type = "sched_switch"
  /\ LET d == Get(emitted).event_data
     IN /\ d.prev_tid # None /\ IsInt(Get(d.prev_tid)) /\ d.prev_comm # None
        /\ d.next_tid # None /\ IsInt(Get(d.next_tid)) /\ d.next_comm # None

\* C14: after a sched_switch carrying prev_tid = p, prev_comm = c, next_tid = n
\* and next_comm = m, the thread context maps p to the command name c and n
\* to the command name m, whether or not p and n were known before.
C14_SwitchRecordsBoth ==
  SwitchEmitted =>
    LET d == Get(emitted).event_data
    IN /\ IntOf(d.prev_tid) \in DOMAIN tid_context
       /\ IntOf(d.next_tid) \in DOMAIN tid_context
       /\ tid_context[IntOf(d.prev_tid)].comm = CleanComm(d.prev_comm)
       /\ tid_context[IntOf(d.next_tid)].comm = CleanComm(d.next_comm)

LineType(l) == IF l # None /\ Get(l).shape = "event" THEN Get(l).event_type ELSE ""

\* C15: the pid the thread context stores for an already-known tid is changed
\* only by sched_process_fork lines; a sched_process_exec line changes no
\* more than the command name; no line removes a tid from the thread context.
C15_OnlyForkChangesPid ==
  [][\A t \in DOMAIN tid_context :
       /\ t \in DOMAIN tid_context'
       /\ tid_context'[t].pid # tid_context[t].pid => LineType(last_line') = "sched_process_fork"
       /\ LineType(last_line') = "sched_process_exec" => tid_context'[t].pid = tid_context[t].pid]_vars

\* thread 8, moved to pid 7 by a fork, then renamed by an exec that kept pid 7
C15_Witness ==
  /\ LineType(last_line) = "sched_process_exec"
  /\ Get(last_line).event_data.tid = Some(IntV(8))
  /\ 8 \in DOMAIN tid_context
  /\ tid_context[8] = [pid |-> 7, comm |-> Worker]

Unknown == <<"u", "n", "k", "n", "o", "w", "n">>

\* the line matches the grammar, carries no identity field, and no tid is
\* recorded for its cpu
Unresolvable(l, cc) ==
  /\ l # None /\ Get(l).shape = "event"
  /\ ContextLess(Get(l).event_data)
  /\ LET cpu == Get(l).event_data.cpu_id
     IN cpu = None \/ ~IsInt(Get(cpu)) \/ IntOf(cpu) \notin DOMAIN cc

NumericCpu(l) ==
  Get(l).event_data.cpu_id = None \/ IsInt(Get(Get(l).event_data.cpu_id))

Retained ==
  /\ emitted' # None
  /\ Get(emitted').pid = -1 /\ Get(emitted').tid = -1
  /\ Get(emitted').process_name = Unknown
  /\ nparsed' = nparsed + 1
  /\ parse_errors' = parse_errors

\* C16 as stated: a line that matches the grammar and from which no pid/tid
\* can be derived is appended to the events with pid = -1, tid = -1 and
\* process_name "unknown"; it is not dropped and not counted in parse_errors.
C16_UnresolvedRetained ==
  [][Unresolvable(last_line', cpu_context') => Retained]_vars

\* C16 amended: such a line is appended with pid = -1, tid = -1 and
\* process_name "unknown" and is not counted in parse_errors when its cpu_id
\* field is absent or an integer; when its cpu_id is not a number the line is
\* dropped and counted in parse_errors.
C16_UnresolvedRetainedNumericCpu ==
  [][Unresolvable(last_line', cpu_context') =>
       IF NumericCpu(last_line') THEN Retained
       ELSE emitted' = None /\ parse_errors' = parse_errors + 1 /\ nparsed' = nparsed]_vars

\* a read without identity on a cpu that has no thread recorded, while
\* another cpu has one: retained with the sentinel identity
C16_Witness ==
  /\ Unresolvable(last_line, cpu_context)
  /\ Get(last_line).event_data.cpu_id = Some(IntV(1))
  /\ 0 \in DOMAIN cpu_context
  /\ emitted # None
  /\ Get(emitted).pid = -1 /\ Get(emitted).tid = -1 /\ Get(emitted).process_name = Unknown
  /\ parse_errors = 0 /\ nparsed = total_lines

\* what became of the line read by the step
Appended == emitted' # None /\ nparsed' = nparsed + 1 /\ parse_errors' = parse_errors
Rejected == emitted' = None /\ nparsed' = nparsed /\ parse_errors' = parse_errors + 1
Skipped == emitted' = None /\ nparsed' = nparsed /\ parse_errors' = parse_errors

\* C22: every line read raises total_lines by one and is exactly one of:
\* appended as one event, counted once in parse_errors, or a blank/comment
\* line counted in neither; a line that does not match the grammar is
\* counted in parse_errors; the events and the errors never outnumber the
\* lines.
C22_LineAccounting ==
  /\ [](nparsed + parse_errors <= total_lines)
  /\ [][last_line' # last_line \/ total_lines' # total_lines =>
          /\ total_lines' = total_lines + 1
          /\ Get(last_line').shape = "blank" => Skipped
          /\ Get(last_line').shape = "nomatch" => Rejected
          /\ Get(last_line').shape = "event" => (Appended \/ Rejected)]_vars

\* three lines read: one appended, one rejected, one blank; the last one is
\* an event appended after the others
C22_Witness ==
  /\ total_lines = 3
  /\ nparsed = 1
  /\ parse_errors = 1
  /\ LineType(last_line) = "syscall_entry_read"
  /\ emitted # None

\* C33: a line rejected by _parse_line (it returns None and parse_errors is
\* incremented) leaves tid_context, cpu_context and context_updates as they
\* were before the call.
C33_RejectedLeavesContext ==
  [][(total_lines' # total_lines /\ Rejected) =>
       /\ tid_context' = tid_context
       /\ cpu_context' = cpu_context
       /\ context_updates' = context_updates]_vars

\* C34: every emitted event whose tid is in the thread context when it is
\* emitted carries the pid the thread context holds for that tid
\* (sched_process_fork events included).
C34_PidOfContext ==
  (emitted # None /\ Get(emitted).tid \in DOMAIN tid_context) =>
    Get(emitted).pid = tid_context[Get(emitted).tid].pid

\* the line just read is a sched_switch with a cpu_id and a next_tid
SwitchWithNext(line) ==
  /\ line.shape = "event"
  /\ line.event_type = "sched_switch"
  /\ line.event_data.cpu_id # None /\ IsInt(Get(line.event_data.cpu_id))
  /\ line.event_data.next_tid # None /\ IsInt(Get(line.event_data.next_tid))

\* C35: after any prefix of the input, cpu_context[c] is the next_tid of the
\* most recent sched_switch with cpu_id = c that carried a next_tid, and c
\* is absent when there was none; no other event changes cpu_context.
C35_CpuContextFollowsSwitch ==
  /\ [](total_lines = 0 => cpu_context = <<>>)
  /\ [][total_lines' # total_lines =>
          LET line == Get(last_line')
          IN IF SwitchWithNext(line)
             THEN LET c == IntOf(line.event_data.cpu_id)
                  IN /\ DOMAIN cpu_context' = DOMAIN cpu_context \cup {c}
                     /\ cpu_context'[c] = IntOf(line.event_data.next_tid)
                     /\ \A k \in DOMAIN cpu_context : k # c => cpu_context'[k] = cpu_context[k]
             ELSE cpu_context' = cpu_context]_vars

\* cpu 0 switched to thread 8; a later sched_switch on cpu 0 that names only
\* the outgoing thread left the entry as it was
C35_Witness ==
  /\ total_lines = 2
  /\ LineType(last_line) = "sched_switch"
  /\ Get(last_line).event_data.cpu_id = Some(IntV(0))
  /\ Get(last_line).event_data.next_tid = None
  /\ DOMAIN cpu_context = {0}
  /\ cpu_context[0] = 8

-----------------------------------------------------------------------------
(* Claims on the descriptor map under interleaved threads (SpecThreads) *)

\* C11: for every (pid, fd) key the intervals of its list are in
\* non-decreasing start order, however the entries and exits of the threads
\* of one process interleave.
C11_StartsNonDecreasing ==
  \A key \in DOMAIN fd_map :
    \A i, j \in 1..Len(fd_map[key]) : i < j => fd_map[key][i].start <= fd_map[key][j].start

-----------------------------------------------------------------------------
(* Claims on the entity extractor (SpecEntities) *)

\* the tids that occur together with pid in at least one event of the stream
TidsWith(pid) == {x_events[i].tid : i \in {j \in DOMAIN x_events : x_events[j].pid = pid}}

\* C23: after extract_all, the thread_count of every Process entity is the
\* number of distinct tids that occur together with its pid in the stream.
C23_ThreadCountDistinct ==
  extracted =>
    \A pid \in DOMAIN entities.processes :
      entities.processes[pid].thread_count = Cardinality(TidsWith(pid))

\* the open entries of the stream that name path
OpensOf(path) ==
  {i \in DOMAIN x_events :
     /\ IsOpenEntry(x_events[i].event_type)
     /\ x_events[i].event_data.filename = Some(StrV(path))}

\* event k is the exit, by the same thread, of the open entry j, returning fd
ReturnsFd(j, k, fd) ==
  /\ j < k
  /\ IsOpenExit(x_events[k].event_type)
  /\ x_events[k].tid = x_events[j].tid
  /\ x_events[k].pid = x_events[j].pid
  /\ x_events[k].event_data.ret = Some(IntV(fd))
  /\ \A m \in (j + 1)..(k - 1) : x_events[m].tid # x_events[j].tid

\* the read/write entries whose (pid, fd) refers to path, opened earlier
ReferencesTo(path) ==
  {i \in DOMAIN x_events :
     /\ IsReadWriteEntry(x_events[i].event_type)
     /\ x_events[i].event_data.fd # None
     /\ \E j \in OpensOf(path) : \E k \in (j + 1)..(i - 1) :
          /\ x_events[j].pid = x_events[i].pid
          /\ ReturnsFd(j, k, Get(x_events[i].event_data.fd)[2])}

\* C24: a File's access_count counts its opens and, in addition, every read
\* or write entry whose (pid, fd) refers to the file opened earlier in the
\* trace.
C24_ReferencesCounted ==
  extracted =>
    \A path \in DOMAIN entities.files :
      entities.files[path].access_count =
        Cardinality(OpensOf(path)) + Cardinality(ReferencesTo(path))

-----------------------------------------------------------------------------
(* Claims on the pipeline (SpecPipeline) *)

\* the second run has finished
SecondRunDone == run = 2 /\ extracted /\ phase = "built"

-----------------------------------------------------------------------------
(* Claims on the timestamp conversion (SpecTimestamp) *)

\* the two-digit field of the text that starts at position i
Field2(text, i) == 10 * DigitValue(text[i]) + DigitValue(text[i + 1])

\* the digits after the point
Fraction(text) == SubSeq(text, 10, Len(text))

\* HH*3600 + MM*60 + SS.fraction read off the text by position, in units of
\* 10^-k for k fraction digits
ManualSeconds(text) ==
  LET k == Len(Fraction(text))
  IN <<(Field2(text, 1) * 3600 + Field2(text, 4) * 60 + Field2(text, 7)) * PowerOfTen(k)
         + DigitsValue(Fraction(text)), k>>

\* C26: for every timestamp text HH:MM:SS.fraction of a matching line,
\* _parse_timestamp does not raise and returns HH*3600 + MM*60 + SS.fraction
\* seconds since midnight.
C26_TimestampSeconds ==
  timestamp # None =>
    /\ Get(timestamp).ok
    /\ Get(timestamp).value = ManualSeconds(Get(timestamp_str))

C26_Witness ==
  /\ timestamp_str = Some(<<"5", "9", ":", "0", "5", ":", "0", "9", ".", "9", "5">>)
  /\ timestamp # None
  /\ Get(timestamp).ok
  /\ Get(timestamp).value = <<21270995, 2>>

-----------------------------------------------------------------------------
(* Claims on unsuccessful and unmatched calls (SpecFailed) *)

\* an open or socket call that returned a negative value or none, a close
\* that did not return 0, or a call of another name
Unsuccessful(p) ==
  \/ /\ p.syscall_name \in {"open", "openat", "openat2", "socket"}
     /\ (p.return_value = None \/ Get(p.return_value) < 0)
  \/ /\ p.syscall_name = "close"
     /\ p.return_value # Some(0)
  \/ p.syscall_name \notin {"open", "openat", "openat2", "socket", "close"}

\* C28: a paired open, openat, openat2 or socket whose return value is
\* negative or missing, a paired close whose return value is not 0, and a
\* paired syscall of any other name leave the descriptor map and the created
\* and closed counters unchanged.
C28_OnlySuccessChanges ==
  [][(Len(pairs') = Len(pairs) + 1 /\ Unsuccessful(pairs'[Len(pairs')])) =>
       /\ fd_map' = fd_map
       /\ fd_mappings_created' = fd_mappings_created
       /\ fd_mappings_cleaned' = fd_mappings_cleaned]_vars

\* an open made an interval; a failed close and an open without a return
\* value then left it as it was
C28_Witness ==
  /\ Len(pairs) = 3
  /\ IsOpenOn(pairs[1], TheKey)
  /\ pairs[2].syscall_name = "close" /\ pairs[2].return_value = Some(-1)
  /\ pairs[3].syscall_name = "openat" /\ pairs[3].return_value = None
  /\ Len(fd_map[TheKey]) = 1
  /\ fd_map[TheKey][1].end = None
  /\ fd_mappings_created = 1
  /\ fd_mappings_cleaned = 0

\* the sum of the counts of the sequences of an operation
RECURSIVE CountSum(_, _)
CountSum(seqs, op) ==
  IF seqs = <<>> THEN 0
  ELSE (IF Head(seqs).operation = op THEN Head(seqs).count ELSE 0) + CountSum(Tail(seqs), op)

\* how often pair i is in the event_stream of s
TimesIn(i, s) == Cardinality({k \in 1..Len(s.event_stream) : s.event_stream[k].src = i})

\* C30: for each rule, every paired syscall whose name is in the rule's
\* syscall list is in the event_stream of exactly one sequence of that
\* operation, so the counts of the operation's sequences sum to the number
\* of matching paired syscalls; a paired syscall matching no rule is in no
\* sequence.
C30_EveryMatchOnce ==
  Built =>
    /\ \A rule \in RuleSet :
         /\ \A i \in 1..Len(pairs) : Matches(i, rule) =>
              /\ Cardinality(SeqsHolding(i) \cap SeqsOf(rule.operation)) = 1
              /\ \A n \in SeqsHolding(i) \cap SeqsOf(rule.operation) :
                   TimesIn(i, sequences[n]) = 1
         /\ CountSum(sequences, rule.operation)
              = Cardinality({i \in 1..Len(pairs) : Matches(i, rule)})
    /\ \A i \in 1..Len(pairs) :
         (\A rule \in RuleSet : ~Matches(i, rule)) => SeqsHolding(i) = {}

\* two reads batched into one sequence per matching rule (read and
\* socket_recv), and an fsync that is in none
C30_Witness ==
  /\ Built
  /\ Len(pairs) = 3
  /\ pairs[1].syscall_name = "read"
  /\ pairs[2].syscall_name = "fsync"
  /\ pairs[3].syscall_name = "read"
  /\ SeqsHolding(2) = {}
  /\ Cardinality(SeqsHolding(1)) = 2
  /\ SeqsHolding(1) = SeqsHolding(3)
  /\ CountSum(sequences, "read") = 2

-----------------------------------------------------------------------------
(* Claims on the time span of a sequence (SpecOverlap) *)

\* C31: for every sequence, start_time is <= the start time of every paired
\* syscall in its event_stream and end_time is >= the end time of every one
\* of them, hence end_time >= start_time and duration_ms >= 0.
C31_SpanCoversEvents ==
  Built =>
    \A n \in 1..Len(sequences) :
      /\ \A i \in Sources(sequences[n]) :
           /\ sequences[n].start_time <= pairs[i].start_time
           /\ sequences[n].end_time >= pairs[i].end_time
      /\ sequences[n].end_time >= sequences[n].start_time
      /\ DurationMs(sequences[n]) >= 0

-----------------------------------------------------------------------------
(* Claims on builder instances (SpecBuilders) *)

\* C32: rules loaded from a schema configuration by one builder do not
\* change the rule table of another: a builder constructed without a
\* configuration groups with the built-in default rules, whatever builders
\* were constructed before it.
C32_DefaultsWithoutConfig ==
  (run = 2 /\ schema_rules = <<>>) =>
    /\ grouping_rules = DefaultRules
    /\ Built => sequences = BuildFrom(pairs, fd_map, DefaultRules, 0).sequences

-----------------------------------------------------------------------------
(* Claims on the returned list of sequences (SpecGap) *)

\* C36: build_sequences returns the sequences of all operations in one list
\* in non-decreasing start_time order.
C36_SortedByStart ==
  Built => \A n \in 1..Len(sequences) : \A m \in 1..Len(sequences) :
             n < m => sequences[n].start_time <= sequences[m].start_time

\* a sequence of a later rule starts before a sequence of an earlier rule,
\* and the sort moved it to the front
C36_Witness ==
  /\ Built
  /\ \E n \in 1..Len(sequences) : \E m \in 1..Len(sequences) :
       /\ n < m
       /\ sequences[n].operation # sequences[m].operation
       /\ sequences[n].start_time < sequences[m].start_time
       /\ sequences[n].sequence_id[3] > sequences[m].sequence_id[3]

\* C37: within one builder no two sequences have the same sequence_id,
\* across all operations and all grouping keys.
C37_SequenceIdsDistinct ==
  \A n \in 1..Len(sequences) : \A m \in 1..Len(sequences) :
    n # m => sequences[n].sequence_id # sequences[m].sequence_id

\* sequences of one operation under two grouping keys beside a sequence of
\* another operation
C37_Witness ==
  /\ Built
  /\ \E n \in 1..Len(sequences) : \E m \in 1..Len(sequences) : \E k \in 1..Len(sequences) :
       /\ n # m
       /\ sequences[n].operation = sequences[m].operation
       /\ sequences[n].thread_id # sequences[m].thread_id
       /\ sequences[k].operation # sequences[n].operation

-----------------------------------------------------------------------------
(* Claims on the descriptor snapshot parser (SpecSnapshot) *)

\* the block b opens with the process line of k's pid, ends with a name line,
\* and the last descriptor line before that name is numeric and spells k's fd
RecordedInBlock(k, b) ==
  /\ Len(b) >= 3
  /\ StartsWith(b[1], <<"p">>) /\ LsofInt(Rest(b[1])) = Some(k[1])
  /\ StartsWith(b[Len(b)], <<"n">>)
  /\ \E i \in 2..(Len(b) - 1) :
       /\ StartsWith(b[i], <<"f">>) /\ LsofInt(Rest(b[i])) = Some(k[2])
       /\ \A j \in (i + 1)..(Len(b) - 1) : ~StartsWith(b[j], <<"f">>)

\* C38: a name line is recorded only for the process line and the numeric
\* descriptor line that precede it within the same process block: after a
\* new process line no name is recorded under a descriptor number read in
\* the previous process's block, and a non-numeric descriptor line makes the
\* following name lines be skipped.
C38_NameWithinBlock ==
  [][\A k \in DOMAIN fd_mappings' :
       (k \notin DOMAIN fd_mappings \/ fd_mappings'[k] # fd_mappings[k])
         => RecordedInBlock(k, block')]_vars

====
